---------------------------- MODULE Spec2Model ----------------------------
(***************************************************************************)
(* Model of the job poller of the ERMES mapping plug-in:                   *)
(*   src/workers/main.py          MainWorker (run, stop, _authenticate,    *)
(*                                _get_job_status, _download_resource)     *)
(*   src/workers/token_manager.py TokenManager (set_token,                 *)
(*                                is_token_expired, is_token_valid)        *)
(*                                                                         *)
(* run() executes in a worker thread, stop() in the GUI thread.  Every     *)
(* blocking call of run() (login POST, status GET, retrieve GET, the body  *)
(* stream, the two sleeps) is a position of pc, so that stop() and the     *)
(* clock interleave with it wherever the real threads can.  The server is  *)
(* the environment: every answer it can give is a nondeterministic choice. *)
(*                                                                         *)
(* Python values: None is the empty tuple, a string s is <<s>>, the n-th   *)
(* token handed out by the login endpoint is <<"tok", n>>, a datetime is   *)
(* <<minutes>>.                                                            *)
(***************************************************************************)
EXTENDS Integers, Sequences, FiniteSets, TLC

VARIABLES
    pc,               \* position of MainWorker.run
    stop_pc,          \* position of MainWorker.stop (GUI thread)
    is_running,       \* MainWorker.is_running
    access_token,     \* MainWorker.access_token
    tm_access_token,  \* MainWorker.token_manager.access_token
    token_created_at, \* MainWorker.token_manager.token_created_at
    job_status,       \* run(): the last parsed status response
    cache_path,       \* _download_resource(): file being written
    local_path,       \* run(): value returned by _download_resource
    disk,             \* the cache directory: path -> state of the file
    now,              \* the wall clock, in minutes
    log,              \* signals emitted and HTTP requests issued, in order
    iterations,       \* times the body of the while loop was entered
    stops,            \* completed calls of stop()
    seen_at_stop,     \* Len(log) when stop() was first entered, or None
    token_lifetime,   \* TokenManager.token_lifetime_minutes
    expiration_buffer, \* TokenManager.expiration_buffer_minutes
    tm_call,          \* the TokenManager method called last, or None
    task_pc,          \* position of the task's run(), "absent" without task
    canceled,         \* QgsTask.isCanceled()
    cancel_pc,        \* position of the task's cancel() (main thread)
    cancels,          \* completed calls of cancel()
    result,           \* value returned by run(), in a 1-tuple, or None
    result_path,      \* the task's result_path
    error_message,    \* the task's error_message
    task_datatype_id, \* JobDownloadTask.datatype_id
    total_size,       \* JobDownloadTask.total_size
    downloaded_size,  \* JobDownloadTask.downloaded_size
    progress,         \* the arguments of setProgress, in order
    seen_at_cancel,   \* where run() was when cancel() was first called
    file_size,        \* FileUploadTask.run: os.path.getsize(file_path)
    task_kind,        \* the class of the task: "download", "upload", "none"
    response,         \* FileUploadTask.run: the answer to the POST, or None
    downloads,        \* the downloads of several units, one record for each
    records           \* the credentials of several units, one record for each

\* the variables of the job poller
worker_vars == << pc, stop_pc, is_running, job_status, cache_path,
                  local_path, iterations, stops, seen_at_stop >>

\* the variables of a TokenManager used on its own and of the tasks
tm_vars == << token_lifetime, expiration_buffer, tm_call >>

\* the variables of a task
task_vars == << task_pc, canceled, cancel_pc, cancels, result, result_path,
                error_message, task_datatype_id, total_size,
                downloaded_size,
                progress, seen_at_cancel, file_size, task_kind, response >>

\* the variables of a FileUploadTask only
upload_only_vars == << file_size, response >>

\* the variables of the specifications of several units
session_vars == << downloads, records >>

unit_vars == << tm_vars, task_vars, session_vars >>

vars == << pc, stop_pc, is_running, access_token, tm_access_token,
           token_created_at, job_status, cache_path, local_path, disk,
           now, log, iterations, stops, seen_at_stop, unit_vars >>

-----------------------------------------------------------------------------
(* Bounds of the model *)

\* iterations of the polling loop explored
MaxPolls == 2
\* minutes the clock advances
MaxTime == 2
\* calls of stop() explored
MaxStops == 1

-----------------------------------------------------------------------------
(* Python values *)

None == << >>

EmptyStr == << "" >>

\* truthiness of an optional string
Truthy(v) == v # None /\ v # EmptyStr

-----------------------------------------------------------------------------
(* Configuration (src/utils/config_loader.py); the durations are scaled    *)
(* down from the defaults 6000 and 5 so that expiry happens within MaxTime *)

token_lifetime_minutes == 3

expiration_buffer_minutes == 1


-----------------------------------------------------------------------------
(* TokenManager *)

\* a fault of TokenExpired: the buffer is left out of the comparison
TokenExpired_no_buffer(tok, created, t, lifetime, buffer) ==
    IF ~Truthy(tok) \/ created = None
        THEN TRUE
        ELSE t - created[1] >= lifetime

\* a fault of TokenExpired: a token is expired inside the buffer window only
TokenExpired_window_only(tok, created, t, lifetime, buffer) ==
    IF ~Truthy(tok) \/ created = None
        THEN TRUE
        ELSE /\ t - created[1] >= lifetime - buffer
             /\ t - created[1] < lifetime

\* TokenManager.is_token_expired, lines 38-47, at time t for a manager whose
\* token_lifetime_minutes and expiration_buffer_minutes are the last two
\* arguments
TokenExpired(tok, created, t, lifetime, buffer) ==
    IF ~Truthy(tok) \/ created = None
        THEN TRUE
        ELSE t - created[1] >= lifetime - buffer

\* TokenManager.is_token_expired at time t, under the configured durations
is_token_expired(tok, created, t) ==
    TokenExpired(tok, created, t, token_lifetime_minutes,
                 expiration_buffer_minutes)

\* TokenManager.is_token_valid at time t
is_token_valid(tok, created, t) == ~is_token_expired(tok, created, t)

-----------------------------------------------------------------------------
(* The server *)

Statuses == {"end", "error", "pending", "start", "update", "queued"}

StatusCodes == {200, 404, 500}

\* JSON bodies of GET jobs_detail, one for each way run() can read them.
\* has_keys = FALSE stands for a body that lacks one of "status", "result",
\* "status_code".  datatype_id is body.datatype_id, None when "body" or the
\* field is absent.  A field run() does not read for the given status has
\* one value only.
StatusResponses ==
    { r \in [has_keys : BOOLEAN, status : Statuses, status_code : StatusCodes,
             resource_url : {None, <<"url">>},
             datatype_id : {None, <<"dt1">>}] :
        /\ ~r.has_keys => r.status = "end" /\ r.resource_url = None
        /\ r.status # "end" => r.resource_url = None
        /\ r.resource_url = None => r.datatype_id = None
        /\ r.status_code # 200 <=> r.has_keys /\ r.status = "error" }

\* values of "access_token" in a 2xx answer of the n-th POST login: a
\* non-empty string, new at every login
LoginTokens(n) == { <<"tok", n>> }

\* file names the retrieve response can lead to: the Content-Disposition
\* name, or the fallback "<job_id>.zip" when the header gives none
ContentDispositions == { None, <<"layer.tif">> }

-----------------------------------------------------------------------------
(* The log of signals and requests *)

Event(ev, a, b) == [ev |-> ev, a |-> a, b |-> b]

Signal(name, a) == Event(name, a, None)

Request(method_url, token) == Event(method_url, token, None)

CountIn(l, ev) == Cardinality({ i \in 1..Len(l) : l[i].ev = ev })

Count(ev) == CountIn(log, ev)

Logins == Count("POST login")

-----------------------------------------------------------------------------
(* MainWorker: helpers of run() *)

\* no task has been constructed
NoTask ==
    /\ task_pc = "absent"
    /\ canceled = FALSE
    /\ cancel_pc = "idle"
    /\ cancels = 0
    /\ result = None
    /\ result_path = None
    /\ error_message = None
    /\ task_datatype_id = None
    /\ total_size = 0
    /\ downloaded_size = 0
    /\ progress = << >>
    /\ seen_at_cancel = None
    /\ file_size = 0
    /\ response = None
    /\ task_kind = "none"

\* no specification of several units is in use
NoSession == downloads = << >> /\ records = << >>

Init ==
    /\ pc = "start"
    /\ stop_pc = "idle"
    /\ is_running = TRUE
    /\ access_token = None
    /\ tm_access_token = None
    /\ token_created_at = None
    /\ job_status = None
    /\ cache_path = None
    /\ local_path = None
    /\ disk = [p \in {} |-> "partial"]
    /\ now = 0
    /\ log = << >>
    /\ iterations = 0
    /\ stops = 0
    /\ seen_at_stop = None
    /\ token_lifetime = token_lifetime_minutes
    /\ expiration_buffer = expiration_buffer_minutes
    /\ tm_call = None
    /\ NoTask
    /\ NoSession

\* a fault of TokenUsable: the age of the token is not looked at
TokenUsable_no_expiry == Truthy(access_token)

\* _authenticate, line 57: the stored token can be sent as it is
TokenUsable ==
    /\ Truthy(access_token)
    /\ is_token_valid(tm_access_token, token_created_at, now)

\* a fault of LoopCondition: "while True"
LoopCondition_always == TRUE

\* the condition of "while self.is_running"
LoopCondition == is_running

\* a fault of IsSoftError: a 404 handled like every other error status
IsSoftError_never(r) == FALSE

\* a fault of IsSoftError: every error status taken for the 404 warning
IsSoftError_always(r) == TRUE

\* run(), line 165: the 404 answer that is only a warning
IsSoftError(r) == r.status_code = 404

\* a fault of HasResource: "end" always starts the download
HasResource_unchecked(r) == TRUE

\* run(), line 152: job_status.get("resource_url") is truthy
HasResource(r) == Truthy(r.resource_url)

\* layer_ready is declared pyqtSignal(str, str).  emit() converts two str
\* arguments; for None the binding either passes a null string on or raises
\* TypeError, so both outcomes are kept.
EmitOutcomes(path, datatype_id) ==
    IF path # None /\ datatype_id # None
        THEN { "emitted" }
        ELSE { "emitted", "TypeError" }

\* a fault of LayerReadyEvent: datatype_id looked up beside "body", not in it
LayerReadyEvent_outside_body(path, r) == Event("layer_ready", path, None)

\* run(), lines 155-156: the signal that hands the layer over
LayerReadyEvent(path, r) == Event("layer_ready", path, r.datatype_id)

\* _download_resource, lines 111-122: the file the body is written to
CachePath(content_disposition) ==
    IF Truthy(content_disposition)
        THEN << "cache", "job", content_disposition[1] >>
        ELSE << "cache", "job", "job.zip" >>

\* a fault of AfterRequestException: "continue" in place of "break"
AfterRequestException_retry == "loop"

\* where run() continues after "except RequestException: ... break"
AfterRequestException == "finally"

\* the inner handler of run(), lines 190-193
RaiseRequestException ==
    /\ log' = log \o << Signal("error", <<"API request error">>),
                        Signal("log_separator", None) >>
    /\ pc' = AfterRequestException

\* a fault of RaiseException: finished emitted at the end of the try block
\* instead of in "finally"
RaiseException_no_finally ==
    /\ log' = Append(log, Signal("error", <<"Worker Error">>))
    /\ pc' = "done"

\* a fault of RaiseException: the exception is swallowed
RaiseException_silent ==
    /\ log' = log
    /\ pc' = "finally"

\* the outer handler of run(), lines 195-196
RaiseException ==
    /\ log' = Append(log, Signal("error", <<"Worker Error">>))
    /\ pc' = "finally"

token_vars == << access_token, tm_access_token, token_created_at >>

file_vars == << cache_path, local_path, disk >>

stop_vars == << stop_pc, is_running, stops, seen_at_stop >>

-----------------------------------------------------------------------------
(* MainWorker._authenticate, inlined in its two callers *)

\* lines 57-67: send the request with the stored token, or POST the login
authenticate(at, login_pc, send_pc, req) ==
    /\ pc = at
    /\ IF TokenUsable
          THEN /\ pc' = send_pc
               /\ log' = Append(log, Request(req, access_token))
          ELSE /\ pc' = login_pc
               /\ log' = Append(log, Request("POST login", None))
    /\ UNCHANGED unit_vars
    /\ UNCHANGED << token_vars, file_vars, stop_vars, job_status, now,
                    iterations >>

\* a fault of login_exchange: the failure of the login is swallowed and the
\* request goes out with the token at hand
login_exchange_unchecked(at, send_pc, req) ==
    /\ pc = at
    /\ \/ \E tok \in LoginTokens(Logins) :
            /\ access_token' = tok
            /\ tm_access_token' = tok
            /\ token_created_at' = << now >>
            /\ pc' = send_pc
            /\ log' = Append(log, Request(req, tok))
       \/ /\ pc' = send_pc
          /\ log' = Append(log, Request(req, access_token))
          /\ UNCHANGED token_vars
    /\ UNCHANGED unit_vars
    /\ UNCHANGED << file_vars, stop_vars, job_status, now, iterations >>

\* a fault of login_exchange: the new token is not handed to the token
\* manager
login_exchange_keeps_manager(at, send_pc, req) ==
    /\ pc = at
    /\ \/ \E tok \in LoginTokens(Logins) :
            /\ access_token' = tok
            /\ UNCHANGED << tm_access_token, token_created_at >>
            /\ pc' = send_pc
            /\ log' = Append(log, Request(req, tok))
       \/ /\ RaiseRequestException
          /\ UNCHANGED token_vars
       \/ /\ RaiseException
          /\ UNCHANGED token_vars
    /\ UNCHANGED unit_vars
    /\ UNCHANGED << file_vars, stop_vars, job_status, now, iterations >>

\* lines 67-76: the answer of the login POST
login_exchange(at, send_pc, req) ==
    /\ pc = at
    /\ \/ \E tok \in LoginTokens(Logins) :
            /\ access_token' = tok
            /\ tm_access_token' = tok
            /\ token_created_at' = << now >>
            /\ pc' = send_pc
            /\ log' = Append(log, Request(req, tok))
       \/ \* connection error, or raise_for_status on a 4xx/5xx answer
          /\ RaiseRequestException
          /\ UNCHANGED token_vars
       \/ \* a 2xx answer without "access_token" (KeyError)
          /\ RaiseException
          /\ UNCHANGED token_vars
    /\ UNCHANGED unit_vars
    /\ UNCHANGED << file_vars, stop_vars, job_status, now, iterations >>

-----------------------------------------------------------------------------
(* MainWorker.run *)

\* line 141
run_start ==
    /\ pc = "start"
    /\ log' = Append(log, Signal("status_updated", <<"starting">>))
    /\ pc' = "loop"
    /\ UNCHANGED unit_vars
    /\ UNCHANGED << token_vars, file_vars, stop_vars, job_status, now,
                    iterations >>

\* a fault of run_loop: leaving the loop on stop() reported as an error
run_loop_cancel_error ==
    /\ pc = "loop"
    /\ IF LoopCondition
          THEN /\ iterations < MaxPolls
               /\ iterations' = iterations + 1
               /\ pc' = "status_auth"
               /\ log' = log
          ELSE /\ iterations' = iterations
               /\ pc' = "finally"
               /\ log' = Append(log, Signal("error", <<"cancelled">>))
    /\ UNCHANGED unit_vars
    /\ UNCHANGED << token_vars, file_vars, stop_vars, job_status, now >>

\* line 143: the test of the while loop
run_loop ==
    /\ pc = "loop"
    /\ IF LoopCondition
          THEN /\ iterations < MaxPolls
               /\ iterations' = iterations + 1
               /\ pc' = "status_auth"
          ELSE /\ iterations' = iterations
               /\ pc' = "finally"
    /\ UNCHANGED unit_vars
    /\ UNCHANGED << token_vars, file_vars, stop_vars, job_status, now, log >>

\* _get_job_status, line 85
status_auth ==
    authenticate("status_auth", "status_login", "status_get", "GET jobs_detail")

status_login ==
    login_exchange("status_login", "status_get", "GET jobs_detail")

\* a fault of handle_status: an unknown status is waited on like "pending"
handle_status_unknown_waits(r) ==
    IF ~r.has_keys
      THEN RaiseException
      ELSE
        CASE r.status = "end" ->
               IF HasResource(r)
                 THEN /\ log' = Append(log, Signal("status_updated",
                                                   <<"downloading">>))
                      /\ pc' = "download_auth"
                 ELSE /\ log' = Append(log, Signal("error", <<"no resource">>))
                      /\ pc' = "finally"
          [] r.status = "error" ->
               IF IsSoftError(r)
                 THEN /\ log' = Append(log, Signal("status_updated",
                                                   <<"warning">>))
                      /\ pc' = "error_sleep"
                 ELSE /\ log' = log \o << Signal("error", <<"job error">>),
                                         Signal("log_separator", None) >>
                      /\ pc' = "finally"
          [] OTHER ->
               /\ log' = Append(log, Signal("status_updated", <<"status">>))
               /\ pc' = "polling_sleep"

\* lines 146-188: the branch on a parsed status response
handle_status(r) ==
    IF ~r.has_keys
      THEN RaiseException
      ELSE
        CASE r.status = "end" ->
               IF HasResource(r)
                 THEN /\ log' = Append(log, Signal("status_updated",
                                                   <<"downloading">>))
                      /\ pc' = "download_auth"
                 ELSE /\ log' = Append(log, Signal("error", <<"no resource">>))
                      /\ pc' = "finally"
          [] r.status = "error" ->
               IF IsSoftError(r)
                 THEN /\ log' = Append(log, Signal("status_updated",
                                                   <<"warning">>))
                      /\ pc' = "error_sleep"
                 ELSE /\ log' = log \o << Signal("error", <<"job error">>),
                                         Signal("log_separator", None) >>
                      /\ pc' = "finally"
          [] r.status \in {"pending", "start", "update"} ->
               /\ log' = Append(log, Signal("status_updated", <<"status">>))
               /\ pc' = "polling_sleep"
          [] OTHER ->
               /\ log' = log \o << Signal("error", <<"unknown status">>),
                                   Signal("log_separator", None) >>
               /\ pc' = "finally"

\* _get_job_status, lines 88-91: the answer of the status GET
status_get ==
    /\ pc = "status_get"
    /\ \/ \* connection error, or raise_for_status on a 4xx/5xx answer
          /\ RaiseRequestException
          /\ UNCHANGED job_status
       \/ \* a body that is no JSON object
          /\ RaiseException
          /\ UNCHANGED job_status
       \/ \E r \in StatusResponses :
            /\ job_status' = << r >>
            /\ pc' = "status_branch"
            /\ log' = log
    /\ UNCHANGED unit_vars
    /\ UNCHANGED << token_vars, file_vars, stop_vars, now, iterations >>

\* run(), lines 146-188
status_branch ==
    /\ pc = "status_branch"
    /\ handle_status(job_status[1])
    /\ UNCHANGED unit_vars
    /\ UNCHANGED << token_vars, file_vars, stop_vars, job_status, now,
                    iterations >>

\* line 170: time.sleep(self.error_sleep_seconds) returns
error_sleep ==
    /\ pc = "error_sleep"
    /\ pc' = "loop"
    /\ UNCHANGED unit_vars
    /\ UNCHANGED << token_vars, file_vars, stop_vars, job_status, now, log,
                    iterations >>

\* line 182: time.sleep(self.polling_interval) returns
polling_sleep ==
    /\ pc = "polling_sleep"
    /\ pc' = "loop"
    /\ UNCHANGED unit_vars
    /\ UNCHANGED << token_vars, file_vars, stop_vars, job_status, now, log,
                    iterations >>

\* _download_resource, line 105
download_auth ==
    authenticate("download_auth", "download_login", "download_get",
                 "GET retrieve")

download_login ==
    login_exchange("download_login", "download_get", "GET retrieve")

\* _download_resource, lines 108-124: the answer of the retrieve GET, up to
\* the opening of the cache file
download_get ==
    /\ pc = "download_get"
    /\ \/ /\ RaiseRequestException
          /\ UNCHANGED file_vars
       \/ \* os.makedirs or open fails (OSError)
          /\ RaiseException
          /\ UNCHANGED file_vars
       \/ \E cd \in ContentDispositions :
            /\ cache_path' = CachePath(cd)
            /\ disk' = [ p \in DOMAIN disk \cup {CachePath(cd)} |->
                           IF p = CachePath(cd) THEN "partial" ELSE disk[p] ]
            /\ local_path' = local_path
            /\ pc' = "download_stream"
            /\ log' = log
    /\ UNCHANGED unit_vars
    /\ UNCHANGED << token_vars, stop_vars, job_status, now, iterations >>

\* _download_resource, lines 125-129, then run(), lines 153-161
download_stream ==
    /\ pc = "download_stream"
    /\ \/ \* the connection breaks while the body is read
          /\ RaiseRequestException
          /\ UNCHANGED file_vars
       \/ \* f.write fails (OSError)
          /\ RaiseException
          /\ UNCHANGED file_vars
       \/ \* the body is read to its end
          /\ disk' = [disk EXCEPT ![cache_path] = "complete"]
          /\ local_path' = cache_path
          /\ cache_path' = cache_path
          /\ \E outcome \in EmitOutcomes(cache_path, job_status[1].datatype_id) :
               IF outcome = "emitted"
                 THEN /\ log' = Append(log, LayerReadyEvent(cache_path,
                                                            job_status[1]))
                      /\ pc' = "finally"
                 ELSE RaiseException
    /\ UNCHANGED unit_vars
    /\ UNCHANGED << token_vars, stop_vars, job_status, now, iterations >>

\* line 198
run_finally ==
    /\ pc = "finally"
    /\ log' = Append(log, Signal("finished", None))
    /\ pc' = "done"
    /\ UNCHANGED unit_vars
    /\ UNCHANGED << token_vars, file_vars, stop_vars, job_status, now,
                    iterations >>

-----------------------------------------------------------------------------
(* MainWorker.stop, called from the GUI thread *)

\* line 202
stop_emit ==
    /\ stop_pc = "idle"
    /\ stops < MaxStops
    /\ stop_pc' = "set_flag"
    /\ log' = Append(log, Signal("status_updated", <<"stopping">>))
    /\ UNCHANGED unit_vars
    /\ UNCHANGED << pc, token_vars, file_vars, is_running, stops,
                    seen_at_stop, job_status, now, iterations >>

\* line 203
stop_set ==
    /\ stop_pc = "set_flag"
    /\ is_running' = FALSE
    /\ stops' = stops + 1
    /\ stop_pc' = "idle"
    /\ seen_at_stop' =
          IF seen_at_stop = None
            THEN << [log_len |-> Len(log), iters |-> iterations, at |-> pc] >>
            ELSE seen_at_stop
    /\ UNCHANGED unit_vars
    /\ UNCHANGED << pc, token_vars, file_vars, job_status, now, log,
                    iterations >>

-----------------------------------------------------------------------------
(* The clock *)

\* time passes while run() waits for an answer or sleeps
Blocking ==
    pc \in { "status_login", "status_get", "error_sleep", "polling_sleep",
             "download_login", "download_get", "download_stream" }

tick ==
    /\ now < MaxTime
    /\ Blocking
    /\ now' = now + 1
    /\ UNCHANGED unit_vars
    /\ UNCHANGED << pc, token_vars, file_vars, stop_vars, job_status, log,
                    iterations >>

Next ==
    \/ run_start
    \/ run_loop
    \/ status_auth
    \/ status_login
    \/ status_get
    \/ status_branch
    \/ error_sleep
    \/ polling_sleep
    \/ download_auth
    \/ download_login
    \/ download_get
    \/ download_stream
    \/ run_finally
    \/ stop_emit
    \/ stop_set
    \/ tick

Spec == Init /\ [][Next]_vars

-----------------------------------------------------------------------------
(* Vocabulary of the properties *)

RequestKinds == { "POST login", "GET jobs_detail", "GET retrieve" }

\* positions of the log after position n that hold a request of these kinds
RequestsAfter(n, kinds) == { i \in (n + 1)..Len(log) : log[i].ev \in kinds }

\* position of the last status request, 0 when there is none
LastStatusRequest ==
    LET at == { i \in 1..Len(log) : log[i].ev = "GET jobs_detail" }
    IN  IF at = {} THEN 0 ELSE CHOOSE i \in at : \A j \in at : j <= i

\* the status_updated signals with this message
Messages(m) ==
    { i \in 1..Len(log) : log[i].ev = "status_updated" /\ log[i].a = <<m>> }

\* the error signals with this message
Errors(m) == { i \in 1..Len(log) : log[i].ev = "error" /\ log[i].a = <<m>> }

Ended == pc \in { "finally", "done" }

\* the status response run() has branched on
Handled == job_status # None /\ pc # "status_branch"

EndWithResource(r) == r.has_keys /\ r.status = "end" /\ r.resource_url # None

EndWithoutResource(r) == r.has_keys /\ r.status = "end" /\ r.resource_url = None

-----------------------------------------------------------------------------
(* C1 *)

\* C1: finished is emitted exactly once per run of MainWorker.run: not before
\* the run has ended, and once when it has ended, in success and in failure.
C1_FinishedExactlyOnce ==
    Count("finished") = (IF pc = "done" THEN 1 ELSE 0)

\* a run that ended in failure after stop() had been called
C1_Witness ==
    /\ pc = "done"
    /\ Count("finished") = 1
    /\ Count("error") = 1
    /\ seen_at_stop # None

-----------------------------------------------------------------------------
(* C2 *)

-----------------------------------------------------------------------------
(* C3 *)

\* C3: once run() has branched on an "end" response without a resource, it
\* has emitted exactly one error (the missing resource), no layer_ready, has
\* sent no retrieve request and no request at all after that status request,
\* and it is at its end.
C3_EndWithoutResource ==
    (Handled /\ EndWithoutResource(job_status[1]))
    => /\ Ended
       /\ Count("error") = 1
       /\ Errors("no resource") # {}
       /\ Count("layer_ready") = 0
       /\ Count("GET retrieve") = 0
       /\ RequestsAfter(LastStatusRequest, RequestKinds) = {}

C3_Witness ==
    /\ pc = "done"
    /\ Handled
    /\ EndWithoutResource(job_status[1])
    /\ Count("finished") = 1

-----------------------------------------------------------------------------
(* C4 *)

SoftErrorResponse(r) == r.has_keys /\ r.status = "error" /\ r.status_code = 404

C4_Warns ==
    (pc = "status_branch" /\ pc' # pc /\ SoftErrorResponse(job_status[1]))
    => /\ pc' = "error_sleep"
       /\ log' = Append(log, Signal("status_updated", <<"warning">>))

C4_SleepsAndPollsAgain ==
    /\ (pc = "error_sleep" /\ pc' # pc) => (pc' = "loop" /\ log' = log)
    /\ (pc = "loop" /\ pc' # pc /\ is_running)
          => (pc' = "status_auth" /\ log' = log)

C4_StillDelivers ==
    (/\ pc = "done"
     /\ Messages("warning") # {}
     /\ EndWithResource(job_status[1])
     /\ job_status[1].datatype_id # None
     /\ local_path # None)
    => (Count("layer_ready") = 1 /\ Count("error") = 0)

-----------------------------------------------------------------------------
(* C5 *)

FatalResponse(r) ==
    /\ r.has_keys
    /\ \/ r.status = "error" /\ r.status_code # 404
       \/ r.status \notin { "end", "error", "pending", "start", "update" }

\* C5: once run() has branched on an "error" response whose status_code is
\* not 404, or on a response with an unknown status, it has emitted exactly
\* one error and no layer_ready, has sent no request after that status
\* request, and it is at its end.
C5_FatalStatus ==
    (Handled /\ FatalResponse(job_status[1]))
    => /\ Ended
       /\ Count("error") = 1
       /\ Errors(IF job_status[1].status = "error"
                   THEN "job error" ELSE "unknown status") # {}
       /\ Count("layer_ready") = 0
       /\ RequestsAfter(LastStatusRequest, RequestKinds) = {}

\* a second poll answered with an unknown status
C5_Witness ==
    /\ pc = "done"
    /\ Handled
    /\ job_status[1].status = "queued"
    /\ iterations = 2
    /\ Count("error") = 1

-----------------------------------------------------------------------------
(* C6 *)

C6_FailsAtOnce ==
    (pc = "status_get" /\ pc' \notin { "status_get", "status_branch" })
    => /\ pc' = "finally"
       /\ Count("error") = 0
       /\ Count("error")' = 1
       /\ RequestsAfter(Len(log), RequestKinds)' = {}

C6_NoRequestAfterTheEnd ==
    Ended => (Ended' /\ RequestsAfter(Len(log), RequestKinds)' = {})

\* C6: a status fetch that fails (connection, HTTP status, unreadable body)
\* takes run() straight to its end with exactly one error emitted, and no
\* request is sent from then on: the fetch is not retried.
C6_TransportFailure ==
    /\ [][C6_FailsAtOnce]_vars
    /\ [][C6_NoRequestAfterTheEnd]_vars

\* the second status fetch failed: it is the last request of the run
C6_Witness ==
    /\ pc = "done"
    /\ Errors("API request error") # {}
    /\ iterations = 2
    /\ LastStatusRequest # 0
    /\ RequestsAfter(LastStatusRequest, RequestKinds) = {}
    /\ job_status # None
    /\ job_status[1].status = "pending"

-----------------------------------------------------------------------------
(* C7 *)

\* positions of run() inside the polling loop, before the download
Polling ==
    { "loop", "status_auth", "status_login", "status_get", "status_branch",
      "error_sleep", "polling_sleep" }

\* positions between two polls: the loop test and the two sleeps
BetweenPolls == { "loop", "error_sleep", "polling_sleep" }

\* stop() set the flag while run() was polling
StoppedWhilePolling == seen_at_stop # None /\ seen_at_stop[1].at \in Polling

-----------------------------------------------------------------------------
(* C8 *)

-----------------------------------------------------------------------------
(* C9 *)

AuthChecks == { "status_auth", "download_auth" }

LoginWaits == { "status_login", "download_login" }

\* an authenticated request is appended to the log by this step
SendsRequest ==
    /\ Len(log') = Len(log) + 1
    /\ log'[Len(log')].ev \in { "GET jobs_detail", "GET retrieve" }

\* the credential is absent or locally expired
Unusable ==
    \/ ~Truthy(access_token)
    \/ is_token_expired(tm_access_token, token_created_at, now)

\* a request leaves only from the usability check, with the stored token, or
\* from a login that succeeded, with the token it returned
C9_CheckedBeforeSent ==
    SendsRequest
    => \/ /\ pc \in AuthChecks
          /\ ~Unusable
          /\ log'[Len(log')].a = access_token
          /\ UNCHANGED token_vars
       \/ /\ pc \in LoginWaits
          /\ log'[Len(log')].a = access_token'
          /\ tm_access_token' = access_token'
          /\ token_created_at' = << now >>

\* the check sends the login POST exactly when the credential is unusable,
\* and a login POST is sent by nothing but the check
C9_LoginIffUnusable ==
    /\ (pc \in AuthChecks /\ pc' # pc)
          => /\ Unusable <=> (pc' \in LoginWaits /\ Logins' = Logins + 1)
             /\ ~Unusable <=> (SendsRequest /\ Logins' = Logins)
    /\ Logins' # Logins => pc \in AuthChecks

\* unless the login fails and ends the run, the request goes out with the
\* token the login returned and nothing is emitted
C9_ReloginIsSilent ==
    (pc \in LoginWaits /\ pc' \notin LoginWaits \cup { "finally" })
    => /\ pc' \in { "status_get", "download_get" }
       /\ SendsRequest
       /\ log'[Len(log')].a = access_token'
       /\ Count("error")' = Count("error")

\* while the first token is still locally valid there has been one login
C9_OneLoginWhileValid ==
    (/\ access_token = << "tok", 1 >>
     /\ is_token_valid(tm_access_token, token_created_at, now))
    => Logins = 1

\* C9: every status and retrieve request is sent straight after the check of
\* the credential or after the login it called for; the login POST is sent
\* exactly when the credential is absent or locally expired; a login that
\* succeeds lets the request go with the new token and emits no error; and
\* as long as the first token is locally valid the run has logged in once.
C9_TransparentReauthentication ==
    /\ [][C9_CheckedBeforeSent]_vars
    /\ [][C9_LoginIffUnusable]_vars
    /\ [][C9_ReloginIsSilent]_vars
    /\ []C9_OneLoginWhileValid

\* the first token expired during the run: a second login, a second token in
\* the next request, and no error
C9_Witness ==
    /\ access_token = << "tok", 2 >>
    /\ Logins = 2
    /\ Count("error") = 0
    /\ log[Len(log)] = Request("GET jobs_detail", << "tok", 2 >>)
    /\ iterations = 2

-----------------------------------------------------------------------------
(* C10 *)

\* the step of a login that succeeded
LoginSucceeds ==
    /\ access_token' \in LoginTokens(Logins)
    /\ tm_access_token' = access_token'
    /\ token_created_at' = << now >>
    /\ SendsRequest
    /\ log'[Len(log')].a = access_token'

\* the step of a login that failed
LoginFails ==
    /\ UNCHANGED token_vars
    /\ Count("error") = 0
    /\ Count("error")' = 1
    /\ RequestsAfter(Len(log), RequestKinds)' = {}
    /\ pc' = "finally"

C10_LoginStep == (pc \in LoginWaits /\ pc' # pc) => (LoginSucceeds \/ LoginFails)

C10_EndsAfterFailure ==
    Ended => /\ Ended'
             /\ Count("error")' = Count("error")
             /\ RequestsAfter(Len(log), RequestKinds)' = {}
             /\ UNCHANGED token_vars

\* C10: a login exchange either succeeds, or leaves the stored credential as
\* it was, emits the one error of the run, sends no request and takes run()
\* to its end, where nothing but finished follows.
C10_LoginFailure ==
    /\ [][C10_LoginStep]_vars
    /\ [][C10_EndsAfterFailure]_vars
    /\ [](pc = "done" => Count("finished") = 1)

\* the first login failed: no token stored, no status request, one error
C10_Witness ==
    /\ pc = "done"
    /\ Logins = 1
    /\ access_token = None
    /\ token_created_at = None
    /\ Count("GET jobs_detail") = 0
    /\ Count("error") = 1
    /\ Count("finished") = 1

-----------------------------------------------------------------------------
(* TokenManager used on its own (src/workers/token_manager.py).  The calls  *)
(* are made one after the other by the owner of the manager; the request   *)
(* of validate_token_with_api is in flight between two steps, so that the  *)
(* clock can move while it is.  tm_call describes the call made last:      *)
(*   op          the method                                                *)
(*   done        the method has returned                                   *)
(*   value       what it returned, in a 1-tuple (None for no value)        *)
(*   local       check_and_handle_expiration: what is_token_expired said   *)
(*   asked       the GET of validate_token_with_api was sent               *)
(*   raised      requests.get raised instead of answering                  *)
(*   status_code the status of the answer, 0 when there is none            *)
(*   at          the clock when the method returned (when it was entered,  *)
(*               while it has not)                                         *)
(*   len0        Len(log) when the method was entered                      *)

\* lifetimes a manager is configured with or is handed by set_token
MaxLifetime == 3
\* expiration buffers a manager is configured with
MaxBuffer == 2
\* signals and requests of one manager explored
MaxEvents == 3

Lifetimes == 1..MaxLifetime

Buffers == 0..MaxBuffer

\* the access_token arguments of set_token: non-empty strings
TokenArgs == { <<"tok", 1>>, <<"tok", 2>> }

\* the lifetime_minutes arguments of set_token, None being the default
LifetimeArgs == { None } \cup { <<l>> : l \in Lifetimes }

\* the statuses the validation request is answered with
ValidationCodes == {200, 401, 403, 500}

\* __init__, lines 17-27: no token, the durations of the configuration
InitToken ==
    /\ tm_access_token = None
    /\ token_created_at = None
    /\ token_lifetime \in Lifetimes
    /\ expiration_buffer \in Buffers
    /\ tm_call = None
    /\ NoTask
    /\ NoSession
    /\ now = 0
    /\ log = << >>
    /\ access_token = None
    /\ disk = [p \in {} |-> "partial"]
    /\ pc = "done"
    /\ stop_pc = "idle"
    /\ is_running = FALSE
    /\ job_status = None
    /\ cache_path = None
    /\ local_path = None
    /\ iterations = 0
    /\ stops = 0
    /\ seen_at_stop = None

\* no call of the manager is under way
TmIdle == IF tm_call = None THEN TRUE ELSE tm_call[1].done

\* a call that returns without a request
Returned(op, value) ==
    << [op |-> op, done |-> TRUE, value |-> value, local |-> FALSE,
        asked |-> FALSE, raised |-> FALSE, status_code |-> 0, at |-> now,
        len0 |-> Len(log)] >>

\* set_token, lines 29-34
set_token(tok, lifetime) ==
    /\ TmIdle
    /\ tm_access_token' = tok
    /\ token_created_at' = << now >>
    /\ token_lifetime' = IF lifetime # None THEN lifetime[1] ELSE token_lifetime
    /\ tm_call' = Returned("set_token", None)
    /\ UNCHANGED << task_vars, session_vars >>
    /\ UNCHANGED << worker_vars, access_token, disk, now, log,
                    expiration_buffer >>

\* a fault of clear_token: the creation time is left behind
clear_token_keeps_created_at ==
    /\ TmIdle
    /\ tm_access_token' = None
    /\ tm_call' = Returned("clear_token", None)
    /\ UNCHANGED << task_vars, session_vars >>
    /\ UNCHANGED << worker_vars, access_token, token_created_at, disk, now,
                    log, token_lifetime, expiration_buffer >>

\* clear_token, lines 111-114
clear_token ==
    /\ TmIdle
    /\ tm_access_token' = None
    /\ token_created_at' = None
    /\ tm_call' = Returned("clear_token", None)
    /\ UNCHANGED << task_vars, session_vars >>
    /\ UNCHANGED << worker_vars, access_token, disk, now, log,
                    token_lifetime, expiration_buffer >>

\* a call of is_token_expired, lines 36-47
call_is_token_expired ==
    /\ TmIdle
    /\ tm_call' = Returned("is_token_expired",
                           << TokenExpired(tm_access_token, token_created_at,
                                           now, token_lifetime,
                                           expiration_buffer) >>)
    /\ UNCHANGED << task_vars, session_vars >>
    /\ UNCHANGED << worker_vars, token_vars, disk, now, log, token_lifetime,
                    expiration_buffer >>

\* a fault of TimeUntilExpiry: the buffer is subtracted as well
TimeUntilExpiry_less_buffer(created, t, lifetime, buffer) ==
    IF created = None
        THEN 0
        ELSE IF lifetime - buffer - (t - created[1]) > 0
                 THEN lifetime - buffer - (t - created[1])
                 ELSE 0

\* get_time_until_expiry, lines 53-62, in minutes
TimeUntilExpiry(created, t, lifetime, buffer) ==
    IF created = None
        THEN 0
        ELSE IF lifetime - (t - created[1]) > 0
                 THEN lifetime - (t - created[1])
                 ELSE 0

\* a call of get_time_until_expiry
call_get_time_until_expiry ==
    /\ TmIdle
    /\ tm_call' = Returned("get_time_until_expiry",
                           << TimeUntilExpiry(token_created_at, now,
                                              token_lifetime,
                                              expiration_buffer) >>)
    /\ UNCHANGED << task_vars, session_vars >>
    /\ UNCHANGED << worker_vars, token_vars, disk, now, log, token_lifetime,
                    expiration_buffer >>

\* a fault of ValidationResult: every status but 200 taken for a refusal
ValidationResult_only_200(raised, status_code) ==
    raised \/ status_code = 200

\* validate_token_with_api, lines 78-93: the value returned once the request
\* has raised or has been answered with status_code
ValidationResult(raised, status_code) ==
    IF raised
        THEN TRUE
        ELSE IF status_code = 401
                 THEN FALSE
                 ELSE TRUE

\* validate_token_with_api, lines 69-76: no request without a token, else
\* the GET of the jobs list goes out
validate_begin(op, local) ==
    IF ~Truthy(tm_access_token)
        THEN /\ tm_call' = << [ Returned(op, << FALSE >>)[1]
                                  EXCEPT !.local = local ] >>
             /\ log' = log
        ELSE /\ Len(log) < MaxEvents
             /\ tm_call' = << [ Returned(op, None)[1]
                                  EXCEPT !.done = FALSE, !.asked = TRUE,
                                         !.local = local ] >>
             /\ log' = Append(log, Request("GET jobs_list", tm_access_token))

\* a call of validate_token_with_api, up to the request
call_validate_token_with_api ==
    /\ TmIdle
    /\ validate_begin("validate_token_with_api", FALSE)
    /\ UNCHANGED << task_vars, session_vars >>
    /\ UNCHANGED << worker_vars, token_vars, disk, now, token_lifetime,
                    expiration_buffer >>

\* validate_token_with_api, lines 76-93: the request raises or is answered
validate_return ==
    /\ ~TmIdle
    /\ tm_call[1].op = "validate_token_with_api"
    /\ \E raised \in BOOLEAN, code \in ValidationCodes \cup {0} :
        /\ raised <=> code = 0
        /\ tm_call' = << [ tm_call[1] EXCEPT
                             !.done = TRUE, !.raised = raised,
                             !.status_code = code, !.at = now,
                             !.value = << ValidationResult(raised, code) >> ] >>
    /\ UNCHANGED << task_vars, session_vars >>
    /\ UNCHANGED << worker_vars, token_vars, disk, now, log, token_lifetime,
                    expiration_buffer >>

\* a fault of check_begin: the request goes out whatever the age of the token
check_begin_always_remote ==
    /\ TmIdle
    /\ validate_begin("check_and_handle_expiration",
                      TokenExpired(tm_access_token, token_created_at, now,
                                   token_lifetime, expiration_buffer))
    /\ UNCHANGED << task_vars, session_vars >>
    /\ UNCHANGED << worker_vars, token_vars, disk, now, token_lifetime,
                    expiration_buffer >>

\* check_and_handle_expiration, lines 100-105: the local check, and the
\* remote validation up to its request when the token is not expired
check_begin ==
    /\ TmIdle
    /\ IF TokenExpired(tm_access_token, token_created_at, now,
                       token_lifetime, expiration_buffer)
          THEN /\ Len(log) < MaxEvents
               /\ log' = Append(log, Signal("token_expired", None))
               /\ tm_call' = << [ Returned("check_and_handle_expiration",
                                           << FALSE >>)[1]
                                    EXCEPT !.local = TRUE ] >>
          ELSE validate_begin("check_and_handle_expiration", FALSE)
    /\ UNCHANGED << task_vars, session_vars >>
    /\ UNCHANGED << worker_vars, token_vars, disk, now, token_lifetime,
                    expiration_buffer >>

\* check_and_handle_expiration, lines 105-109: the remote validation returns
check_return ==
    /\ ~TmIdle
    /\ tm_call[1].op = "check_and_handle_expiration"
    /\ \E raised \in BOOLEAN, code \in ValidationCodes \cup {0} :
        /\ raised <=> code = 0
        /\ tm_call' = << [ tm_call[1] EXCEPT
                             !.done = TRUE, !.raised = raised,
                             !.status_code = code, !.at = now,
                             !.value = << ValidationResult(raised, code) >> ] >>
        /\ log' = IF ValidationResult(raised, code)
                      THEN log
                      ELSE Append(log, Signal("token_expired", None))
    /\ UNCHANGED << task_vars, session_vars >>
    /\ UNCHANGED << worker_vars, token_vars, disk, now, token_lifetime,
                    expiration_buffer >>

\* the clock, between calls and while a request is in flight
tick_token ==
    /\ now < MaxTime
    /\ now' = now + 1
    /\ UNCHANGED << worker_vars, token_vars, disk, log, unit_vars >>

NextToken ==
    \/ \E tok \in TokenArgs, lifetime \in LifetimeArgs :
           set_token(tok, lifetime)
    \/ clear_token
    \/ call_is_token_expired
    \/ call_get_time_until_expiry
    \/ call_validate_token_with_api
    \/ validate_return
    \/ check_begin
    \/ check_return
    \/ tick_token

SpecToken == InitToken /\ [][NextToken]_vars

-----------------------------------------------------------------------------
(* Properties of the TokenManager *)

\* the call made last was op and has returned
Ret(op) ==
    /\ tm_call # None
    /\ tm_call[1].op = op
    /\ tm_call[1].done

\* the call made last returned at this minute: nothing has happened since
JustReturned(op) == Ret(op) /\ tm_call[1].at = now

\* the durations the expiry rule is stated for: 0 <= buffer < lifetime
DurationsInOrder ==
    /\ 0 =< expiration_buffer
    /\ expiration_buffer < token_lifetime

\* is_token_expired answers TRUE without a token; with one, it answers TRUE
\* exactly from the minute the age reaches lifetime - buffer
C11_AgeRule ==
    JustReturned("is_token_expired") =>
        /\ tm_access_token = None => tm_call[1].value[1] = TRUE
        /\ tm_access_token # None /\ DurationsInOrder =>
               /\ now >= token_created_at[1]
               /\ tm_call[1].value[1] =
                      (now - token_created_at[1]
                           >= token_lifetime - expiration_buffer)

\* is_token_expired called right after set_token answers FALSE
C11_FreshTokenValid ==
    [][ ( /\ JustReturned("set_token")
          /\ DurationsInOrder
          /\ JustReturned("is_token_expired")' )
        => tm_call'[1].value[1] = FALSE ]_vars

\* C11: for every lifetime and buffer with 0 <= buffer < lifetime and every
\* time t not before the token was issued, is_token_expired() called after
\* set_token returns true exactly when t - issuedAt >= lifetime - buffer; it
\* returns false immediately after set_token, and true whenever no token is
\* stored.
C11_ExpiryRule == []C11_AgeRule /\ C11_FreshTokenValid

\* is_token_expired has answered TRUE for a stored token at the very minute
\* its age reached lifetime - buffer, the buffer not being zero, and a
\* minute before the lifetime itself is over
C11_Witness ==
    /\ JustReturned("is_token_expired")
    /\ tm_access_token # None
    /\ DurationsInOrder
    /\ expiration_buffer > 0
    /\ now - token_created_at[1] = token_lifetime - expiration_buffer
    /\ tm_call[1].value[1] = TRUE

\* the validation request was answered with the status code
Answered(code) ==
    /\ tm_call[1].asked
    /\ ~tm_call[1].raised
    /\ tm_call[1].status_code = code

\* C12 as stated: validate_token_with_api returns false only when the server
\* answers 401, in every state of the token manager
C12_AsStated ==
    (Ret("validate_token_with_api") /\ tm_call[1].value[1] = FALSE)
        => Answered(401)

\* C12: validate_token_with_api returns false only when no token is stored,
\* in which case no request is sent, or when the server answers 401; with a
\* token stored, the answer 200, any other status and any exception of the
\* request all give true.
C12_FalseOnlyWithoutTokenOr401 ==
    Ret("validate_token_with_api") =>
        /\ tm_call[1].asked <=> tm_access_token # None
        /\ tm_call[1].asked => Count("GET jobs_list") > 0
        /\ tm_call[1].value[1] = FALSE
               <=> (~tm_call[1].asked \/ Answered(401))
        /\ tm_call[1].asked /\ tm_call[1].raised => tm_call[1].value[1] = TRUE
        /\ \A code \in ValidationCodes \ {401} :
               Answered(code) => tm_call[1].value[1] = TRUE

\* validate_token_with_api has returned False for a stored token, after the
\* server answered 401 to its request
C12_Witness ==
    /\ Ret("validate_token_with_api")
    /\ tm_access_token # None
    /\ Answered(401)
    /\ log[Len(log)].ev = "GET jobs_list"
    /\ tm_call[1].value[1] = FALSE

\* events ev logged since the call made last was entered
EventsInCall(ev) ==
    CountIn(SubSeq(log, tm_call[1].len0 + 1, Len(log)), ev)

\* the call made last is check_and_handle_expiration
InCheck == tm_call # None /\ tm_call[1].op = "check_and_handle_expiration"

\* the stored token is expired by its age, or there is none
LocallyExpired ==
    \/ tm_access_token = None
    \/ now - token_created_at[1] >= token_lifetime - expiration_buffer

\* the step that enters check_and_handle_expiration does the local check and
\* sends the validation request only for a token that passed it
C13_LocalFirst ==
    [][ (TmIdle /\ tm_call' # tm_call /\ InCheck')
        => /\ tm_call'[1].local = LocallyExpired
           /\ tm_call'[1].asked <=> ~LocallyExpired
           /\ Count("GET jobs_list")' =
                  Count("GET jobs_list") + (IF LocallyExpired THEN 0 ELSE 1)
           /\ LocallyExpired => tm_call'[1].done ]_vars

\* it returns true iff both checks passed, and has emitted token_expired
\* once when it returns false and not at all otherwise
C13_Result ==
    InCheck =>
        /\ ~tm_call[1].done => EventsInCall("token_expired") = 0
        /\ tm_call[1].done =>
               /\ tm_call[1].value[1] =
                      (~tm_call[1].local /\ tm_call[1].asked
                          /\ ~Answered(401))
               /\ EventsInCall("token_expired") =
                      (IF tm_call[1].value[1] THEN 0 ELSE 1)
               /\ EventsInCall("GET jobs_list") =
                      (IF tm_call[1].local THEN 0 ELSE 1)

\* no step of it changes the stored credential
C13_CredentialKept ==
    [][ (tm_call' # tm_call /\ InCheck')
        => UNCHANGED << tm_access_token, token_created_at, token_lifetime,
                        expiration_buffer >> ]_vars

\* C13: check_and_handle_expiration performs the local age check first and
\* the remote validation only when the credential is locally valid; it
\* returns true iff both pass, emits token_expired exactly once when it
\* returns false and never when it returns true, and never modifies the
\* stored credential.
C13_CheckAndHandle ==
    C13_LocalFirst /\ []C13_Result /\ C13_CredentialKept

\* check_and_handle_expiration has returned False for a token that was young
\* enough: the request went out, the server answered 401, token_expired was
\* emitted once and the token is still stored
C13_Witness ==
    /\ InCheck
    /\ tm_call[1].done
    /\ ~tm_call[1].local
    /\ Answered(401)
    /\ tm_call[1].value[1] = FALSE
    /\ EventsInCall("token_expired") = 1
    /\ tm_access_token # None

\* C14: after any sequence of set_token and clear_token, access_token is set
\* if and only if token_created_at is set; after clear_token both are empty.
C14_TokenAndTimeTogether ==
    /\ tm_access_token # None <=> token_created_at # None
    /\ Ret("clear_token") =>
           tm_access_token = None /\ token_created_at = None
    /\ Ret("set_token") =>
           tm_access_token # None /\ token_created_at # None

\* clear_token has returned on a manager that had held a token, a request
\* having been sent with it, and neither the token nor its time is left
C14_Witness ==
    /\ Ret("clear_token")
    /\ Len(log) > 0
    /\ log[1].ev = "GET jobs_list"
    /\ log[1].a # None
    /\ tm_access_token = None
    /\ token_created_at = None

\* C15: get_time_until_expiry returns max(0, lifetime - age): it is never
\* negative, it is zero when no credential is stored, and the buffer is not
\* subtracted from it.
C15_TimeUntilExpiry ==
    JustReturned("get_time_until_expiry") =>
        /\ tm_call[1].value[1] >= 0
        /\ tm_access_token = None => tm_call[1].value[1] = 0
        /\ tm_access_token # None =>
               LET age == now - token_created_at[1]
               IN  /\ age =< token_lifetime =>
                          tm_call[1].value[1] = token_lifetime - age
                   /\ age > token_lifetime => tm_call[1].value[1] = 0

\* get_time_until_expiry has returned a positive time for a token that
\* is_token_expired already calls expired, the buffer having been entered
C15_Witness ==
    /\ JustReturned("get_time_until_expiry")
    /\ tm_access_token # None
    /\ expiration_buffer > 0
    /\ now - token_created_at[1] >= token_lifetime - expiration_buffer
    /\ tm_call[1].value[1] > 0
    /\ tm_call[1].value[1] = token_lifetime - (now - token_created_at[1])

-----------------------------------------------------------------------------
(* JobDownloadTask (src/workers/job_download_task.py), a QgsTask.  run()    *)
(* executes in a background thread and returns the result; finished(result) *)
(* and cancel() execute in the main thread, so cancel() interleaves with    *)
(* run() but not with finished().  Every blocking call of run() (the        *)
(* validation GET, the two GETs of the job, each chunk of the body) is a    *)
(* position of task_pc.  The task is constructed at minute 0 with a token   *)
(* that is a non-empty string, and waits in the queue until run() begins.   *)

\* calls of cancel() explored
MaxCancels == 1
\* bytes of a response body explored
MaxBody == 3
\* bytes of one chunk of the body
MaxChunkLen == 2
\* values of the Content-Length header explored
MaxContentLength == 3

\* int(response.headers.get('Content-Length', 0)), line 97
ContentLengths == 0..MaxContentLength

\* len(chunk) for the chunks iter_content yields
ChunkLens == 1..MaxChunkLen

\* body.datatype_id of the job detail, None when it is absent
DatatypeIds == { None, <<"dt1">> }

\* the directory made by tempfile.mkdtemp, line 108
TempDir == << "tmp" >>

\* os.path.join(temp_dir, filename), lines 100-109
TaskCachePath(content_disposition) ==
    IF Truthy(content_disposition)
        THEN << "tmp", content_disposition[1] >>
        ELSE << "tmp", "job.zip" >>

\* the job poller is not part of the run
NoWorker ==
    /\ pc = "done"
    /\ stop_pc = "idle"
    /\ is_running = FALSE
    /\ job_status = None
    /\ cache_path = None
    /\ local_path = None
    /\ iterations = 0
    /\ stops = 0
    /\ seen_at_stop = None

\* __init__ of a task, file_upload_task.py 17-41 and job_download_task.py
\* 17-40: the fields, and the token manager given the token at minute 0
InitTask ==
    /\ NoWorker
    /\ access_token = << "tok", 0 >>
    /\ tm_access_token = access_token
    /\ token_created_at = << 0 >>
    /\ token_lifetime = token_lifetime_minutes
    /\ expiration_buffer = expiration_buffer_minutes
    /\ tm_call = None
    /\ now = 0
    /\ log = << >>
    /\ disk = [p \in {} |-> "partial"]
    /\ task_pc = "queued"
    /\ canceled = FALSE
    /\ cancel_pc = "idle"
    /\ cancels = 0
    /\ result = None
    /\ result_path = None
    /\ error_message = None
    /\ task_datatype_id = None
    /\ total_size = 0
    /\ downloaded_size = 0
    /\ progress = << >>
    /\ seen_at_cancel = None
    /\ file_size = 0
    /\ response = None
    /\ NoSession

InitDownload == InitTask /\ task_kind = "download"

StatusUpdate(level) == Signal("status_update", << level >>)

AuthExpiredMessage ==
    << "Authentication token has expired. Please login again." >>

\* run() returns v, error_message being msg
TaskReturn(v, msg, lg) ==
    /\ error_message' = msg
    /\ log' = lg
    /\ result' = << v >>
    /\ task_pc' = "returned"

\* an except branch of run(): the message is stored and shown, the failure
\* signal is emitted and run() returns False
TaskRaise(failed, msg, lg) ==
    TaskReturn(FALSE, msg,
               lg \o << StatusUpdate("error"), Signal(failed, msg) >>)

\* a fault of AuthFailure: the failure is emitted by run() as well
AuthFailure_emitted_by_run(lg) ==
    TaskRaise(IF task_kind = "upload" THEN "upload_failed"
                                      ELSE "download_failed",
              AuthExpiredMessage, Append(lg, Signal("token_expired", None)))

\* _authenticate returns None and run() returns False (lines 45-47 and
\* 66-68 of job_download_task.py, 46-48 and 69-71 of file_upload_task.py),
\* the token manager having emitted token_expired
AuthFailure(lg) ==
    TaskReturn(FALSE, AuthExpiredMessage,
               Append(lg, Signal("token_expired", None)))

\* job_download_task.py, lines 142-146
DownloadRequestException(lg) ==
    TaskRaise("download_failed", << "Network error during download" >>, lg)

\* job_download_task.py, lines 147-151
DownloadException(lg) ==
    TaskRaise("download_failed", << "Error during download" >>, lg)

\* a fault of DownloadProgress: the percentage is not kept within 20..95
DownloadProgress_unclamped(downloaded, total) ==
    (downloaded * 100) \div total

\* a fault of DownloadProgress: the share that is left, not the share read
DownloadProgress_remaining(downloaded, total) ==
    LET percent == 100 - (downloaded * 100) \div total
        capped == IF percent < 95 THEN percent ELSE 95
    IN  IF capped > 20 THEN capped ELSE 20

\* lines 130-131: the progress shown after a chunk; the quotient is exact
\* or truncated as int() does for the sizes explored
DownloadProgress(downloaded, total) ==
    LET percent == (downloaded * 100) \div total
        capped == IF percent < 95 THEN percent ELSE 95
    IN  IF capped > 20 THEN capped ELSE 20

\* a fault of ChunkProgress: a percentage shown without a Content-Length
ChunkProgress_always(shown, downloaded, total) ==
    Append(shown, IF total > 0 THEN DownloadProgress(downloaded, total)
                               ELSE 20)

\* lines 129-132: the values shown once a chunk is written, shown being
\* those shown before
ChunkProgress(shown, downloaded, total) ==
    IF total > 0
        THEN Append(shown, DownloadProgress(downloaded, total))
        ELSE shown

\* paths of the disk other than those given
Without(paths) == [ p \in DOMAIN disk \ paths |-> disk[p] ]

\* the disk with path holding a file or directory in the state given
With(path, state) ==
    [ p \in DOMAIN disk \cup {path} |-> IF p = path THEN state ELSE disk[p] ]

task_token_vars == << token_vars, tm_vars, task_kind, session_vars >>

\* run(), lines 57-66, with _authenticate and the token manager up to the
\* validation request
download_run_begin ==
    /\ task_pc = "queued"
    /\ LET lg == Append(log, StatusUpdate("info"))
       IN  IF canceled
             THEN /\ progress' = Append(progress, 1)
                  /\ TaskReturn(FALSE, error_message, lg)
             ELSE /\ progress' = progress \o << 1, 5 >>
                  /\ IF TokenExpired(tm_access_token, token_created_at, now,
                                     token_lifetime, expiration_buffer)
                       THEN AuthFailure(lg)
                       ELSE /\ log' = Append(lg, Request("GET jobs_list",
                                                         tm_access_token))
                            /\ task_pc' = "validate"
                            /\ UNCHANGED << result, error_message >>
    /\ UNCHANGED << worker_vars, task_token_vars, seen_at_cancel,
                    upload_only_vars >>
    /\ UNCHANGED << disk, now, canceled,
                    cancel_pc, cancels, result_path, task_datatype_id,
                    total_size, downloaded_size >>

\* the validation request returns (token_manager.py 76-109), then run(),
\* lines 67-76, up to the GET of the job detail
download_validate ==
    /\ task_pc = "validate"
    /\ \E raised \in BOOLEAN, code \in ValidationCodes \cup {0} :
        /\ raised <=> code = 0
        /\ IF ValidationResult(raised, code)
             THEN /\ progress' = Append(progress, 10)
                  /\ log' = log \o << StatusUpdate("info"),
                                      Request("GET jobs_detail", access_token) >>
                  /\ task_pc' = "detail"
                  /\ UNCHANGED << result, error_message >>
             ELSE /\ progress' = progress
                  /\ AuthFailure(log)
    /\ UNCHANGED << worker_vars, task_token_vars, seen_at_cancel,
                    upload_only_vars >>
    /\ UNCHANGED << disk, now, canceled,
                    cancel_pc, cancels, result_path, task_datatype_id,
                    total_size, downloaded_size >>

\* run(), lines 76-93: the job detail arrives, up to the GET of the file
download_detail ==
    /\ task_pc = "detail"
    /\ \/ \* the request fails or raise_for_status raises
          /\ DownloadRequestException(log)
          /\ UNCHANGED << task_datatype_id, progress >>
       \/ \* the body is not the JSON object expected
          /\ DownloadException(log)
          /\ UNCHANGED << task_datatype_id, progress >>
       \/ \E dt \in DatatypeIds :
            /\ task_datatype_id' = dt
            /\ IF canceled
                 THEN /\ TaskReturn(FALSE, error_message, log)
                      /\ progress' = progress
                 ELSE /\ progress' = Append(progress, 15)
                      /\ log' = log \o << StatusUpdate("info"),
                                          Request("GET retrieve",
                                                  access_token) >>
                      /\ task_pc' = "retrieve"
                      /\ UNCHANGED << result, error_message >>
    /\ UNCHANGED << worker_vars, task_token_vars, seen_at_cancel,
                    upload_only_vars >>
    /\ UNCHANGED << disk, now, canceled,
                    cancel_pc, cancels, result_path, total_size,
                    downloaded_size >>

\* run(), lines 93-116: the headers of the file arrive, the directory is
\* made and the file opened
download_retrieve ==
    /\ task_pc = "retrieve"
    /\ \/ \* the request fails or raise_for_status raises
          /\ DownloadRequestException(log)
          /\ UNCHANGED << disk, result_path, total_size >>
       \/ \* Content-Length is not a number, or mkdtemp fails
          /\ DownloadException(log)
          /\ UNCHANGED << disk, result_path, total_size >>
       \/ \E length \in ContentLengths, cd \in ContentDispositions :
            /\ total_size' = length
            /\ result_path' = TaskCachePath(cd)
            /\ \/ \* open() fails
                  /\ disk' = With(TempDir, "dir")
                  /\ DownloadException(log)
               \/ /\ disk' = [ p \in DOMAIN disk
                                     \cup {TempDir, TaskCachePath(cd)} |->
                                 IF p = TempDir THEN "dir" ELSE "partial" ]
                  /\ task_pc' = "stream"
                  /\ UNCHANGED << result, error_message, log >>
    /\ downloaded_size' = 0
    /\ UNCHANGED << worker_vars, task_token_vars, seen_at_cancel,
                    upload_only_vars >>
    /\ UNCHANGED << now, canceled, cancel_pc,
                    cancels, task_datatype_id, progress >>

\* run(), lines 117-132: iter_content yields a chunk
download_chunk ==
    /\ task_pc = "stream"
    /\ \E len \in ChunkLens :
        /\ downloaded_size + len =< MaxBody
        /\ IF canceled
             THEN /\ \/ \* lines 120-122
                        /\ disk' = Without({result_path, TempDir})
                        /\ TaskReturn(FALSE, error_message, log)
                     \/ \* os.remove raises
                        /\ disk' = disk
                        /\ DownloadException(log)
                     \/ \* os.rmdir raises
                        /\ disk' = Without({result_path})
                        /\ DownloadException(log)
                  /\ UNCHANGED << downloaded_size, progress >>
             ELSE \/ /\ downloaded_size' = downloaded_size + len
                     /\ progress' = ChunkProgress(progress,
                                                  downloaded_size + len,
                                                  total_size)
                     /\ UNCHANGED << disk, task_pc, result, error_message,
                                     log >>
                  \/ \* f.write raises
                     /\ DownloadException(log)
                     /\ UNCHANGED << disk, downloaded_size, progress >>
    /\ UNCHANGED << worker_vars, task_token_vars, seen_at_cancel,
                    upload_only_vars >>
    /\ UNCHANGED << now, canceled, cancel_pc,
                    cancels, result_path, task_datatype_id, total_size >>

\* run(), line 117: the connection breaks while the body is read
download_stream_fails ==
    /\ task_pc = "stream"
    /\ DownloadRequestException(log)
    /\ UNCHANGED << worker_vars, task_token_vars, seen_at_cancel,
                    upload_only_vars >>
    /\ UNCHANGED << disk, now, canceled,
                    cancel_pc, cancels, result_path, task_datatype_id,
                    total_size, downloaded_size, progress >>

\* run(), lines 117 and 135-140: the body has ended
download_stream_ends ==
    /\ task_pc = "stream"
    /\ disk' = [disk EXCEPT ![result_path] = "complete"]
    /\ progress' = Append(progress, 100)
    /\ \E outcome \in EmitOutcomes(result_path, task_datatype_id) :
         IF outcome = "emitted"
           THEN TaskReturn(TRUE, error_message,
                    log \o << StatusUpdate("success"),
                              Event("download_completed", result_path,
                                    task_datatype_id) >>)
           ELSE DownloadException(Append(log, StatusUpdate("success")))
    /\ UNCHANGED << worker_vars, task_token_vars, seen_at_cancel,
                    upload_only_vars >>
    /\ UNCHANGED << now, canceled, cancel_pc,
                    cancels, result_path, task_datatype_id, total_size,
                    downloaded_size >>

\* finished(result), lines 153-163, called in the main thread once run() has
\* returned
download_finished ==
    /\ task_pc = "returned"
    /\ cancel_pc = "idle"
    /\ task_pc' = "finished"
    /\ IF result[1] /\ Truthy(result_path)
         THEN \E outcome \in EmitOutcomes(result_path, task_datatype_id) :
                log' = IF outcome = "emitted"
                         THEN Append(log, Event("download_completed",
                                                result_path, task_datatype_id))
                         ELSE log
         ELSE log' = Append(log, Signal("download_failed",
                                        IF Truthy(error_message)
                                          THEN error_message
                                          ELSE << "Download failed" >>))
    /\ UNCHANGED << worker_vars, task_token_vars, seen_at_cancel,
                    upload_only_vars >>
    /\ UNCHANGED << disk, now, canceled,
                    cancel_pc, cancels, result, result_path, error_message,
                    task_datatype_id, total_size, downloaded_size, progress >>

\* the task can still be cancelled: finished() has not been called
Cancellable ==
    /\ task_pc \notin {"absent", "finished"}
    /\ cancel_pc = "idle"
    /\ cancels < MaxCancels

\* cancel(), line 167: QgsTask.cancel() raises the flag isCanceled() reads
download_cancel_begin ==
    /\ Cancellable
    /\ canceled' = TRUE
    /\ cancel_pc' = "emit"
    /\ seen_at_cancel' =
           IF seen_at_cancel = None
             THEN << [at |-> task_pc, log_len |-> Len(log)] >>
             ELSE seen_at_cancel
    /\ UNCHANGED << worker_vars, task_token_vars, disk, now, log, task_pc,
                    upload_only_vars, cancels, result, result_path, error_message,
                    task_datatype_id, total_size, downloaded_size, progress >>

\* cancel(), line 168
download_cancel_emit ==
    /\ cancel_pc = "emit"
    /\ log' = Append(log, Signal("download_failed", << "Download cancelled" >>))
    /\ cancel_pc' = "idle"
    /\ cancels' = cancels + 1
    /\ UNCHANGED << worker_vars, task_token_vars, seen_at_cancel,
                    upload_only_vars >>
    /\ UNCHANGED << disk, now, task_pc,
                    canceled, result, result_path, error_message,
                    task_datatype_id, total_size, downloaded_size, progress >>

\* the clock, while the task waits in the queue or for the network
tick_task ==
    /\ task_pc \in {"queued", "validate", "detail", "retrieve", "stream"}
    /\ now < MaxTime
    /\ now' = now + 1
    /\ UNCHANGED << worker_vars, token_vars, disk, log, unit_vars >>

NextDownload ==
    \/ download_run_begin
    \/ download_validate
    \/ download_detail
    \/ download_retrieve
    \/ download_chunk
    \/ download_stream_fails
    \/ download_stream_ends
    \/ download_finished
    \/ download_cancel_begin
    \/ download_cancel_emit
    \/ tick_task

SpecDownload == InitDownload /\ [][NextDownload]_vars

-----------------------------------------------------------------------------
(* Properties of the JobDownloadTask *)

\* cancel() was first called while run() was reading the body
CancelledMidStream ==
    /\ seen_at_cancel # None
    /\ seen_at_cancel[1].at = "stream"

\* events ev logged since cancel() was first called
EventsSinceCancel(ev) ==
    CountIn(SubSeq(log, seen_at_cancel[1].log_len + 1, Len(log)), ev)

\* the file of the download is on the disk, not written to its end
PartialFileLeft ==
    /\ result_path \in DOMAIN disk
    /\ disk[result_path] = "partial"

\* neither the file of the download nor its directory is on the disk
NothingLeft ==
    /\ result_path \notin DOMAIN disk
    /\ TempDir \notin DOMAIN disk

\* the path of a file that is not written to its end was handed over
PartialPathDelivered ==
    \E i \in 1..Len(log) :
        /\ log[i].ev = "download_completed"
        /\ log[i].a \in DOMAIN disk
        /\ disk[log[i].a] = "partial"

\* C16: when a download is cancelled while the body is being streamed, the
\* partially written file and the temporary directory are removed before any
\* download_failed is emitted, and the path of the partial file is never
\* delivered through download_completed.
C16_CleanupBeforeFailure ==
    CancelledMidStream =>
        /\ EventsSinceCancel("download_failed") > 0 => NothingLeft
        /\ ~PartialPathDelivered

\* the lifecycle has ended: finished() has been called
LifecycleOver == task_pc = "finished"

\* C17: a download cancelled while the body is being streamed emits exactly
\* one download_failed over the whole lifecycle (cancel(), run() and
\* finished() together), and neither the file nor the temporary directory
\* exists once the lifecycle has ended.
C17_OneFailureNothingLeft ==
    (CancelledMidStream /\ LifecycleOver) =>
        /\ Count("download_failed") = 1
        /\ NothingLeft

\* run() has failed after bytes were written, cancel() never having been
\* called
FailedWhileWriting ==
    /\ seen_at_cancel = None
    /\ downloaded_size > 0
    /\ result = << FALSE >>

\* C18: when a download fails after writing has started (a network or a
\* write error), the partial file is removed before the failure event is
\* emitted.
C18_NoPartialFileAtFailure ==
    (FailedWhileWriting /\ Count("download_failed") > 0) => ~PartialFileLeft

\* C19: over the lifecycle of a JobDownloadTask (run() then
\* finished(result)), a download that succeeds emits download_completed
\* exactly once and download_failed never; a download that fails, for an
\* authentication, network or server error, emits download_failed exactly
\* once and download_completed never.
C19_OneTerminalEvent ==
    (LifecycleOver /\ seen_at_cancel = None) =>
        /\ result = << TRUE >> =>
               /\ Count("download_completed") = 1
               /\ Count("download_failed") = 0
        /\ result = << FALSE >> =>
               /\ Count("download_failed") = 1
               /\ Count("download_completed") = 0

-----------------------------------------------------------------------------
(* FileUploadTask (src/workers/file_upload_task.py), a QgsTask with the     *)
(* threads of JobDownloadTask: run() in the background, finished(result)    *)
(* and cancel() in the main thread.  The blocking calls of run() are the    *)
(* validation GET and the POST of the file.                                 *)

\* the largest file accepted, line 93
UploadLimit == 1024 * 1024 * 1024

\* os.path.getsize(file_path): a small file, one of exactly the limit and
\* one a byte over it
FileSizes == { 1, UploadLimit, UploadLimit + 1 }

\* the Content-Type of the answer to the POST: a TIFF under its two names
\* and with a parameter, another image, a JSON body, none
ContentTypes ==
    { << "image/tiff" >>, << "image/tif" >>, << "image/tiff; charset=binary" >>,
      << "image/png" >>, << "application/json" >>, EmptyStr }

\* line 143: "image/tiff" or "image/tif" is part of the Content-Type
IsTiff(content_type) ==
    content_type \in { << "image/tiff" >>, << "image/tif" >>,
                       << "image/tiff; charset=binary" >> }

\* the bodies of an answer that is not a TIFF, as lines 161-165 tell them
\* apart: a JSON object with "detail", a JSON object without it, JSON that
\* is not an object, text that is not JSON
Bodies == { "json_detail", "json_object", "json_other", "text" }

\* the answers to the POST that raise_for_status lets through
Responses ==
    { r \in [ content_type : ContentTypes, body : Bodies \cup {"bytes"} ] :
        r.body = "bytes" <=> IsTiff(r.content_type) }

\* a fault of ErrorText: the raw body whenever there is no "detail"
ErrorText_raw_without_detail(body) ==
    IF body = "json_detail" THEN << "detail" >> ELSE << "response.text" >>

\* lines 161-165: error_json.get("detail", str(error_json)) for a JSON
\* object, response.text when json() or .get raises
ErrorText(body) ==
    IF body = "json_detail"
        THEN << "detail" >>
        ELSE IF body = "json_object"
                 THEN << "str(error_json)" >>
                 ELSE << "response.text" >>

\* line 166
ApiErrorMessage(body) == << "API returned error" >> \o ErrorText(body)

\* tempfile.NamedTemporaryFile(delete=False, suffix=".tif"), line 148
ResultTiff == << "tmp", "result.tif" >>

\* __init__, lines 17-41; datatype_id is the one the caller chose
InitUpload ==
    /\ NoWorker
    /\ access_token = << "tok", 0 >>
    /\ tm_access_token = access_token
    /\ token_created_at = << 0 >>
    /\ token_lifetime = token_lifetime_minutes
    /\ expiration_buffer = expiration_buffer_minutes
    /\ tm_call = None
    /\ now = 0
    /\ log = << >>
    /\ disk = [p \in {} |-> "partial"]
    /\ task_pc = "queued"
    /\ canceled = FALSE
    /\ cancel_pc = "idle"
    /\ cancels = 0
    /\ result = None
    /\ result_path = None
    /\ error_message = None
    /\ task_datatype_id = << "dt1" >>
    /\ total_size = 0
    /\ downloaded_size = 0
    /\ progress = << >>
    /\ seen_at_cancel = None
    /\ file_size = 0
    /\ response = None
    /\ task_kind = "upload"
    /\ NoSession

\* lines 171-175
UploadRequestException(lg) ==
    TaskRaise("upload_failed", << "Network error during inference" >>, lg)

\* lines 176-180
UploadException(lg) ==
    TaskRaise("upload_failed", << "Error during inference" >>, lg)

download_only_vars == << total_size, downloaded_size >>

\* a fault of CancelSeenAfterResponse: the flag is not read
CancelSeenAfterResponse_never == FALSE

\* lines 138-139: isCanceled() once the POST has been answered
CancelSeenAfterResponse == canceled

\* run(), lines 57-69, with _authenticate and the token manager up to the
\* validation request
upload_run_begin ==
    /\ task_pc = "queued"
    /\ LET lg == Append(log, StatusUpdate("info"))
       IN  IF canceled
             THEN /\ progress' = Append(progress, 5)
                  /\ TaskReturn(FALSE, error_message, lg)
             ELSE /\ progress' = progress \o << 5, 10 >>
                  /\ IF TokenExpired(tm_access_token, token_created_at, now,
                                     token_lifetime, expiration_buffer)
                       THEN AuthFailure(lg)
                       ELSE /\ log' = Append(lg, Request("GET jobs_list",
                                                         tm_access_token))
                            /\ task_pc' = "validate"
                            /\ UNCHANGED << result, error_message >>
    /\ UNCHANGED << worker_vars, task_token_vars, seen_at_cancel,
                    upload_only_vars >>
    /\ UNCHANGED << disk, now, canceled, cancel_pc, cancels, result_path,
                    task_datatype_id, download_only_vars >>

\* the validation request returns (token_manager.py 76-109), then run(),
\* lines 70-85, up to the second test of isCanceled()
upload_validate ==
    /\ task_pc = "validate"
    /\ \E raised \in BOOLEAN, code \in ValidationCodes \cup {0} :
        /\ raised <=> code = 0
        /\ IF ~ValidationResult(raised, code)
             THEN /\ AuthFailure(log)
                  /\ progress' = progress
             ELSE /\ progress' = Append(progress, 15)
                  /\ IF canceled
                       THEN TaskReturn(FALSE, error_message,
                                       Append(log, StatusUpdate("info")))
                       ELSE /\ log' = Append(log, StatusUpdate("info"))
                            /\ task_pc' = "prepare"
                            /\ UNCHANGED << result, error_message >>
    /\ UNCHANGED << worker_vars, task_token_vars, seen_at_cancel,
                    upload_only_vars >>
    /\ UNCHANGED << disk, now, canceled, cancel_pc, cancels, result_path,
                    task_datatype_id, download_only_vars >>

\* run(), lines 88-120: the size of the file is read and tested, the file
\* opened and the POST sent
upload_prepare ==
    /\ task_pc = "prepare"
    /\ \/ \* os.path.getsize raises
          /\ UploadException(log)
          /\ UNCHANGED << progress, file_size >>
       \/ \E size \in FileSizes :
            LET lg == Append(log, StatusUpdate("info"))
            IN  /\ file_size' = size
                /\ IF size > UploadLimit
                     THEN /\ TaskRaise("upload_failed",
                                       << "File too large" >>, lg)
                          /\ progress' = progress
                     ELSE \/ \* open() raises
                             /\ UploadException(lg)
                             /\ progress' = progress
                          \/ /\ progress' = Append(progress, 20)
                             /\ log' = lg \o
                                  << Event("open", << "file_path" >>, None),
                                     StatusUpdate("info"),
                                     Request("POST jobs_create_from_file",
                                             access_token) >>
                             /\ task_pc' = "post"
                             /\ UNCHANGED << result, error_message >>
    /\ UNCHANGED << worker_vars, task_token_vars, seen_at_cancel, response >>
    /\ UNCHANGED << disk, now, canceled, cancel_pc, cancels, result_path,
                    task_datatype_id, download_only_vars >>

\* run(), lines 114-145 and 159-169: the POST times out, fails or is
\* answered; the answer is told apart by its Content-Type
upload_post ==
    /\ task_pc = "post"
    /\ \/ \* lines 123-130: no failure signal here
          /\ TaskReturn(FALSE, << "Upload timeout" >>,
                        Append(log, StatusUpdate("error")))
          /\ UNCHANGED << progress, response >>
       \/ \* the request fails or raise_for_status raises
          /\ UploadRequestException(log)
          /\ UNCHANGED << progress, response >>
       \/ \E r \in Responses :
            LET lg == Append(log, StatusUpdate("info"))
            IN  /\ response' = << r >>
                /\ IF CancelSeenAfterResponse
                     THEN /\ progress' = Append(progress, 70)
                          /\ TaskReturn(FALSE, error_message, lg)
                     ELSE IF IsTiff(r.content_type)
                       THEN /\ progress' = progress \o << 70, 85 >>
                            /\ log' = Append(lg, StatusUpdate("info"))
                            /\ task_pc' = "save"
                            /\ UNCHANGED << result, error_message >>
                       ELSE /\ progress' = Append(progress, 70)
                            /\ TaskRaise("upload_failed",
                                         ApiErrorMessage(r.body), lg)
    /\ UNCHANGED << worker_vars, task_token_vars, seen_at_cancel, file_size >>
    /\ UNCHANGED << disk, now, canceled, cancel_pc, cancels, result_path,
                    task_datatype_id, download_only_vars >>

\* a fault of upload_save: 100 is shown before the file is written
upload_save_early_100 ==
    /\ task_pc = "save"
    /\ progress' = Append(progress, 100)
    /\ \/ /\ disk' = With(ResultTiff, "partial")
          /\ UploadException(log)
          /\ UNCHANGED result_path
       \/ /\ disk' = With(ResultTiff, "complete")
          /\ result_path' = ResultTiff
          /\ TaskReturn(TRUE, error_message,
                 log \o << StatusUpdate("success"),
                           Event("upload_completed", ResultTiff,
                                 task_datatype_id) >>)
    /\ UNCHANGED << worker_vars, task_token_vars, seen_at_cancel,
                    upload_only_vars >>
    /\ UNCHANGED << now, canceled, cancel_pc, cancels, task_datatype_id,
                    download_only_vars >>

\* run(), lines 148-158: the body is written to a new temporary file, 100
\* is shown and the completion signal emitted
upload_save ==
    /\ task_pc = "save"
    /\ \/ \* the temporary file cannot be written to its end
          /\ disk' = With(ResultTiff, "partial")
          /\ UploadException(log)
          /\ UNCHANGED << progress, result_path >>
       \/ /\ disk' = With(ResultTiff, "complete")
          /\ result_path' = ResultTiff
          /\ progress' = Append(progress, 100)
          /\ TaskReturn(TRUE, error_message,
                 log \o << StatusUpdate("success"),
                           Event("upload_completed", ResultTiff,
                                 task_datatype_id) >>)
    /\ UNCHANGED << worker_vars, task_token_vars, seen_at_cancel,
                    upload_only_vars >>
    /\ UNCHANGED << now, canceled, cancel_pc, cancels, task_datatype_id,
                    download_only_vars >>

\* finished(result), lines 182-193, called in the main thread once run() has
\* returned
upload_finished ==
    /\ task_pc = "returned"
    /\ cancel_pc = "idle"
    /\ task_pc' = "finished"
    /\ log' = IF result[1] /\ Truthy(result_path)
                THEN Append(log, Event("upload_completed", result_path,
                                       task_datatype_id))
                ELSE Append(log, Signal("upload_failed",
                                        IF Truthy(error_message)
                                          THEN error_message
                                          ELSE << "Inference failed" >>))
    /\ UNCHANGED << worker_vars, task_token_vars, seen_at_cancel,
                    upload_only_vars >>
    /\ UNCHANGED << disk, now, canceled, cancel_pc, cancels, result,
                    result_path, error_message, task_datatype_id,
                    download_only_vars, progress >>

\* cancel(), line 197: QgsTask.cancel() raises the flag isCanceled() reads
upload_cancel_begin ==
    /\ Cancellable
    /\ canceled' = TRUE
    /\ cancel_pc' = "emit"
    /\ seen_at_cancel' =
           IF seen_at_cancel = None
             THEN << [at |-> task_pc, log_len |-> Len(log)] >>
             ELSE seen_at_cancel
    /\ UNCHANGED << worker_vars, task_token_vars, disk, now, log, task_pc,
                    upload_only_vars, cancels, result, result_path,
                    error_message, task_datatype_id, download_only_vars,
                    progress >>

\* cancel(), line 198
upload_cancel_emit ==
    /\ cancel_pc = "emit"
    /\ log' = Append(log, Signal("upload_failed", << "Inference cancelled" >>))
    /\ cancel_pc' = "idle"
    /\ cancels' = cancels + 1
    /\ UNCHANGED << worker_vars, task_token_vars, seen_at_cancel,
                    upload_only_vars >>
    /\ UNCHANGED << disk, now, task_pc, canceled, result, result_path,
                    error_message, task_datatype_id, download_only_vars,
                    progress >>

\* the clock, while the upload waits in the queue or for the network
tick_upload ==
    /\ task_pc \in {"queued", "validate", "prepare", "post", "save"}
    /\ now < MaxTime
    /\ now' = now + 1
    /\ UNCHANGED << worker_vars, token_vars, disk, log, unit_vars >>

NextUpload ==
    \/ upload_run_begin
    \/ upload_validate
    \/ upload_prepare
    \/ upload_post
    \/ upload_save
    \/ upload_finished
    \/ upload_cancel_begin
    \/ upload_cancel_emit
    \/ tick_upload

SpecUpload == InitUpload /\ [][NextUpload]_vars

-----------------------------------------------------------------------------
(* Properties of the FileUploadTask *)

\* terminal events of the upload emitted so far
UploadTerminalEvents == Count("upload_completed") + Count("upload_failed")

\* C20: over the lifecycle of a FileUploadTask, every terminal outcome (an
\* image response, a non-image response, a file that is too large, a
\* timeout, an HTTP or network error, an expired token) emits exactly one
\* terminal event: upload_completed once or upload_failed once, never two.
C20_OneTerminalEvent ==
    (LifecycleOver /\ seen_at_cancel = None) => UploadTerminalEvents = 1

-----------------------------------------------------------------------------
(* Progress of the JobDownloadTask *)

\* the values setProgress is given before the body is read, lines 57-88
SetupProgress == << 1, 5, 10, 15 >>

\* the headers of the file have arrived and the file has been opened
BodyStarted == task_pc = "stream" \/ downloaded_size > 0

\* the body has been read to its end and the file closed
BodyEnded ==
    /\ result_path \in DOMAIN disk
    /\ disk[result_path] = "complete"

\* the values shown while the body was read: those after the set-up values,
\* the 100 that follows the loop left aside
StreamProgress ==
    LET shown == SubSeq(progress, Len(SetupProgress) + 1, Len(progress))
    IN  IF BodyEnded THEN SubSeq(shown, 1, Len(shown) - 1) ELSE shown

\* every step of the chunk loop that shows a value shows one of 20..95
C21_ChunkStepInBand ==
    [][ (task_pc = "stream" /\ task_pc' = "stream" /\ progress' # progress)
        => /\ total_size > 0
           /\ Len(progress') = Len(progress) + 1
           /\ SubSeq(progress', 1, Len(progress)) = progress
           /\ progress'[Len(progress')] >= 20
           /\ progress'[Len(progress')] =< 95 ]_vars

\* with a Content-Length, every value shown for the body is one of 20..95,
\* and a download that succeeds with as many bytes as announced has shown
\* 100 last
C21_BandAndFinalValue ==
    (BodyStarted /\ total_size > 0) =>
        /\ \A i \in 1..Len(StreamProgress) :
               StreamProgress[i] >= 20 /\ StreamProgress[i] =< 95
        /\ (result = << TRUE >> /\ downloaded_size = total_size) =>
               progress[Len(progress)] = 100

\* C21: during a download whose Content-Length is known, every progress
\* value reported while chunks are being streamed lies in [20, 95] for every
\* chunk sequence (including one whose bytes exceed Content-Length), and
\* when the chunks sum to Content-Length and the download succeeds the last
\* progress value reported is 100.
C21_ProgressBand == C21_ChunkStepInBand /\ []C21_BandAndFinalValue

\* a download of as many bytes as announced has succeeded after more than
\* one chunk: a value strictly inside the band was shown for the first
\* chunk, 95 for the last one, and 100 at the end
C21_Witness ==
    /\ result = << TRUE >>
    /\ total_size > 0
    /\ downloaded_size = total_size
    /\ Len(StreamProgress) > 1
    /\ StreamProgress[1] > 20
    /\ StreamProgress[1] < 95
    /\ StreamProgress[Len(StreamProgress)] = 95
    /\ progress[Len(progress)] = 100

\* the headers of the file have arrived without a Content-Length (or with
\* one of 0)
NoContentLength == result_path # None /\ total_size = 0

\* C22 as stated: a download whose response carries no Content-Length never
\* reports a numeric progress percentage at any point of its lifecycle
C22_AsStated == NoContentLength => progress = << >>

\* C22: a download whose response carries no Content-Length reports no
\* percentage while the body is streamed; over its lifecycle it reports only
\* the fixed milestones 1, 5, 10 and 15 before the body and 100 once the
\* body has been read to its end.
C22_MilestonesOnly ==
    NoContentLength =>
        /\ StreamProgress = << >>
        /\ progress = IF BodyEnded THEN SetupProgress \o << 100 >>
                                   ELSE SetupProgress

\* a download without Content-Length has succeeded after more than one
\* chunk, and the milestones are all that was shown
C22_Witness ==
    /\ NoContentLength
    /\ result = << TRUE >>
    /\ downloaded_size > MaxChunkLen
    /\ progress = << 1, 5, 10, 15, 100 >>

-----------------------------------------------------------------------------
(* The files of several downloads.  Each download belongs to a unit of its  *)
(* own, a job poller (MainWorker._download_resource) or a download task     *)
(* (JobDownloadTask.run); the units run in threads of their own, so their   *)
(* steps interleave, and a download may also begin after another has        *)
(* ended.  downloads[d] holds the unit's class, its job id, where it is     *)
(* ("waiting" for the headers, "writing", "returned", "failed") and the     *)
(* path it opened.                                                          *)

\* downloads explored
MaxDownloads == 2

Downloads == 1..MaxDownloads

UnitKinds == { "poller", "task" }

JobIds == { "job1", "job2" }

\* the random parts of the names tempfile.mkdtemp chooses from
TempSuffixes == { "a", "b", "c", "d" }

\* main.py, lines 111-122: the cache file of a job; the name "<job_id>.zip"
\* used without a Content-Disposition name is written job_id
JobCachePath(job_id, content_disposition) ==
    IF Truthy(content_disposition)
        THEN << "tmp", "ermes_qgis", job_id, content_disposition[1] >>
        ELSE << "tmp", "ermes_qgis", job_id, job_id >>

\* job_download_task.py, line 108: the directories mkdtemp can make for a job
JobTempDirs(job_id) ==
    { << "tmp", "qgis_ermes_", job_id, x >> : x \in TempSuffixes }

\* job_download_task.py, lines 100-109: the file in the directory
JobTempPath(dir, content_disposition) ==
    IF Truthy(content_disposition)
        THEN Append(dir, content_disposition[1])
        ELSE Append(dir, dir[3])

InitPaths ==
    /\ downloads \in [ Downloads ->
                         [ kind : UnitKinds, job_id : JobIds,
                           pc : {"waiting"}, path : {None} ] ]
    /\ disk = [p \in {} |-> "partial"]
    /\ log = << >>
    /\ now = 0
    /\ access_token = None
    /\ tm_access_token = None
    /\ token_created_at = None
    /\ token_lifetime = token_lifetime_minutes
    /\ expiration_buffer = expiration_buffer_minutes
    /\ tm_call = None
    /\ records = << >>
    /\ NoWorker
    /\ NoTask

paths_frame ==
    << worker_vars, token_vars, tm_vars, task_vars, now, log, records >>

\* main.py, lines 108-124: the headers arrive, the cache directory is made
\* if it is not there and the file opened for writing
poller_open(d) ==
    /\ downloads[d].kind = "poller"
    /\ downloads[d].pc = "waiting"
    /\ \E cd \in ContentDispositions :
         LET path == JobCachePath(downloads[d].job_id, cd)
         IN  /\ disk' = With(path, "partial")
             /\ downloads' = [downloads EXCEPT ![d].pc = "writing",
                                               ![d].path = path]
    /\ UNCHANGED paths_frame

\* job_download_task.py, lines 93-116: the headers arrive, mkdtemp makes a
\* directory that did not exist and the file is opened in it
task_open(d) ==
    /\ downloads[d].kind = "task"
    /\ downloads[d].pc = "waiting"
    /\ \E cd \in ContentDispositions,
          dir \in JobTempDirs(downloads[d].job_id) \ DOMAIN disk :
         LET path == JobTempPath(dir, cd)
         IN  /\ disk' = [ p \in DOMAIN disk \cup {dir, path} |->
                            IF p = dir THEN "dir"
                            ELSE IF p = path THEN "partial" ELSE disk[p] ]
             /\ downloads' = [downloads EXCEPT ![d].pc = "writing",
                                               ![d].path = path]
    /\ UNCHANGED paths_frame

\* the body is written to its end and the path returned (main.py 125-129,
\* job_download_task.py 117-140)
download_returns(d) ==
    /\ downloads[d].pc = "writing"
    /\ disk' = [disk EXCEPT ![downloads[d].path] = "complete"]
    /\ downloads' = [downloads EXCEPT ![d].pc = "returned"]
    /\ UNCHANGED paths_frame

\* the read or the write of a chunk raises
download_breaks(d) ==
    /\ downloads[d].pc = "writing"
    /\ downloads' = [downloads EXCEPT ![d].pc = "failed"]
    /\ UNCHANGED << paths_frame, disk >>

NextPaths ==
    \E d \in Downloads :
        \/ poller_open(d)
        \/ task_open(d)
        \/ download_returns(d)
        \/ download_breaks(d)

SpecPaths == InitPaths /\ [][NextPaths]_vars

\* C23: every successful download returns a local path uniquely owned by
\* its caller: no other download, running concurrently or earlier
\* (including two pollers or a poller and a download task for the same job
\* id), writes to or returns the same path.
C23_UniquePaths ==
    \A d1 \in Downloads, d2 \in Downloads :
        ( /\ d1 # d2
          /\ downloads[d1].pc = "returned"
          /\ downloads[d2].path # None )
        => downloads[d1].path # downloads[d2].path

-----------------------------------------------------------------------------
(* FileUploadTask: size limit, progress, answers, cancellation *)

\* the requests a FileUploadTask has sent, by their positions in the log
UploadRequests ==
    { i \in 1..Len(log) :
        log[i].ev \in { "GET jobs_list", "POST login",
                        "POST jobs_create_from_file" } }

\* the file of the upload has been opened
FileOpened == Count("open") > 0

\* the upload has failed on the size of its file
TooLarge ==
    /\ task_kind = "upload"
    /\ error_message = << "File too large" >>

\* C24: an upload that fails because its file is larger than 1 GiB has sent
\* no request at all, the validation of the token included, and has not
\* opened the file
C24_NothingSentWhenTooLarge ==
    TooLarge => UploadRequests = {} /\ ~FileOpened

\* what does hold of such an upload: the POST is not sent and the file not
\* opened, the one request sent being the validation of the token
C24_OnlyValidationSent ==
    TooLarge =>
        /\ file_size > UploadLimit
        /\ ~FileOpened
        /\ Count("POST jobs_create_from_file") = 0
        /\ Count("GET jobs_list") = 1

\* the values setProgress is called with, lines 60, 68, 80, 105, 132, 144, 153
UploadMilestones == << 5, 10, 15, 20, 70, 85, 100 >>

IsPrefix(s, t) ==
    /\ Len(s) <= Len(t)
    /\ \A i \in 1..Len(s) : s[i] = t[i]

StrictlyIncreasing(s) == \A i \in 1..(Len(s) - 1) : s[i] < s[i + 1]

Shown(value) == \E i \in 1..Len(progress) : progress[i] = value

\* the result of the upload is on the disk, written to its end
ResultWritten ==
    /\ ResultTiff \in DOMAIN disk
    /\ disk[ResultTiff] = "complete"
    /\ result_path = ResultTiff

\* run() has returned False: the upload has failed or has stopped at a test
\* of isCanceled()
UploadFailed == result = << FALSE >>

\* C25: the progress values of an upload are, in order, a prefix of
\* 5, 10, 15, 20, 70, 85, 100, so strictly increasing; 100 is shown only
\* when the result file has been written, and never by an upload that fails
\* or stops on its cancellation
C25_ProgressMilestones ==
    task_kind = "upload" =>
        /\ IsPrefix(progress, UploadMilestones)
        /\ StrictlyIncreasing(progress)
        /\ Shown(100) => ResultWritten /\ result = << TRUE >>
        /\ UploadFailed => ~Shown(100)

\* an upload has shown every milestone and written its result
C25_Witness ==
    /\ task_kind = "upload"
    /\ progress = UploadMilestones
    /\ ResultWritten
    /\ task_pc = "finished"

\* run() has returned after the POST was answered
ResponseHandled ==
    /\ task_kind = "upload"
    /\ response # None
    /\ task_pc \in {"returned", "finished"}

\* no cancellation was seen at line 138 and the temporary file, if one was
\* made, was written to its end
HandledUndisturbed ==
    /\ ResponseHandled
    /\ \/ seen_at_cancel = None
       \/ seen_at_cancel[1].at \in {"save", "returned"}
    /\ error_message # << "Error during inference" >>

\* the answer was a TIFF: it is in a new temporary file whose path was
\* emitted with upload_completed
TiffOutcome ==
    /\ ResultWritten
    /\ result = << TRUE >>
    /\ \E i \in 1..Len(log) :
        log[i] = Event("upload_completed", ResultTiff, task_datatype_id)

\* the answer was not a TIFF: a failure with this text, no file and no
\* upload_completed
FailureOutcome(text) ==
    /\ UploadFailed
    /\ error_message = << "API returned error" >> \o text
    /\ \E i \in 1..Len(log) :
        log[i] = Signal("upload_failed", << "API returned error" >> \o text)
    /\ disk = << >>
    /\ result_path = None
    /\ Count("upload_completed") = 0

\* the claim as it stands: for an answer that is not a TIFF the text is the
\* "detail" field when the body is JSON with that field, the raw body
\* otherwise
C26_AsStated ==
    HandledUndisturbed =>
        IF IsTiff(response[1].content_type)
            THEN TiffOutcome
            ELSE FailureOutcome(IF response[1].body = "json_detail"
                                    THEN << "detail" >>
                                    ELSE << "response.text" >>)

\* C26: when the POST has been answered and no cancellation is seen, the
\* Content-Type decides: a TIFF is written to a new temporary file whose path
\* is emitted with upload_completed; any other answer is a failure whose text
\* is the "detail" field of a JSON object that has it, str() of the parsed
\* object for a JSON object without it, and the raw body when the body is
\* not a JSON object; then no file is made and upload_completed not emitted
C26_OutcomeByContentType ==
    HandledUndisturbed =>
        IF IsTiff(response[1].content_type)
            THEN TiffOutcome
            ELSE FailureOutcome(
                     CASE response[1].body = "json_detail" -> << "detail" >>
                       [] response[1].body = "json_object"
                              -> << "str(error_json)" >>
                       [] OTHER -> << "response.text" >>)

\* a JSON object without "detail" has been answered and reported
C26_Witness ==
    /\ HandledUndisturbed
    /\ response[1].content_type = << "application/json" >>
    /\ response[1].body = "json_object"
    /\ task_pc = "finished"

\* cancel() was called while run() was at one of these positions
CancelledAt(pcs) ==
    /\ task_kind = "upload"
    /\ seen_at_cancel # None
    /\ seen_at_cancel[1].at \in pcs

PostSent == Count("POST jobs_create_from_file") > 0

\* no result of the upload: no file, no upload_completed
NoUploadResult ==
    /\ ResultTiff \notin DOMAIN disk
    /\ result_path = None
    /\ Count("upload_completed") = 0

\* the claim as it stands: an upload cancelled at any point before the POST
\* is sent sends no POST
C27_AsStated ==
    CancelledAt({"queued", "validate", "prepare"}) /\ task_pc = "finished"
        => ~PostSent

\* C27: an upload cancelled before the test of isCanceled() at line 84
\* sends no POST; one cancelled after that test, before the POST or while it
\* is in flight, sends it and stops at line 138 once the POST returns: no
\* result file is made and upload_completed is never emitted
C27_CancelHonoured ==
    /\ CancelledAt({"queued", "validate"}) => ~PostSent
    /\ CancelledAt({"queued", "validate", "prepare", "post"}) => NoUploadResult
    /\ CancelledAt({"prepare", "post"}) /\ response # None
        => UploadFailed /\ progress = << 5, 10, 15, 20, 70 >>

\* an upload cancelled between line 84 and the POST has sent the POST, got
\* a TIFF and dropped it
C27_Witness ==
    /\ CancelledAt({"prepare"})
    /\ PostSent
    /\ response # None
    /\ IsTiff(response[1].content_type)
    /\ task_pc = "finished"

-----------------------------------------------------------------------------
(* JobDownloadTask: a cleanup that fails *)

\* the failure events that carry the message of the handler of lines 147-151
ErrorEvents ==
    { i \in 1..Len(log) :
        /\ log[i].ev = "download_failed"
        /\ log[i].a = << "Error during download" >> }

\* C30: when a download is cancelled while the body is streamed and the
\* removal of the partial file or of the temporary directory fails, the
\* outcome stays the cancellation: the error of the cleanup does not become
\* the error of the task and no failure event carries it
C30_CleanupErrorNotReported ==
    CancelledMidStream =>
        /\ error_message # << "Error during download" >>
        /\ ErrorEvents = {}

-----------------------------------------------------------------------------
(* JobDownloadTask and FileUploadTask: a credential that is no longer valid *)

InitTasks == InitDownload \/ InitUpload

NextTasks ==
    \/ task_kind = "download" /\ NextDownload
    \/ task_kind = "upload" /\ NextUpload

SpecTasks == InitTasks /\ [][NextTasks]_vars

\* the task has failed on its credential
AuthExpired ==
    /\ task_kind \in {"download", "upload"}
    /\ error_message = AuthExpiredMessage

\* the failure events of either task
TaskFailures == Count("download_failed") + Count("upload_failed")

\* the step in which run() finds the credential expired by its age, or
\* gets 401 from the validation request
AuthFails ==
    \/ /\ task_pc = "queued" /\ task_pc' # "queued"
       /\ ~canceled
       /\ TokenExpired(tm_access_token, token_created_at, now,
                       token_lifetime, expiration_buffer)
    \/ /\ task_pc = "validate" /\ task_pc' = "returned"
       /\ Len(log') = Len(log) + 1
       /\ log'[Len(log')] = Signal("token_expired", None)

\* such a step ends run() with the authentication-expired message, nothing
\* sent, nothing emitted as a failure
C29_FailsAtOnce ==
    [][AuthFails =>
          /\ task_pc' = "returned"
          /\ result' = << FALSE >>
          /\ error_message' = AuthExpiredMessage
          /\ TaskFailures' = TaskFailures]_vars

\* a task that has failed on its credential has sent no job-detail, retrieve
\* or upload request and no login, has made no file, and by the end of its
\* lifecycle has emitted its failure once (beside the event of a cancel()
\* that came meanwhile)
C29_NothingDone ==
    AuthExpired =>
        /\ result = << FALSE >>
        /\ Count("GET jobs_detail") = 0
        /\ Count("GET retrieve") = 0
        /\ Count("POST jobs_create_from_file") = 0
        /\ Count("POST login") = 0
        /\ disk = << >>
        /\ result_path = None
        /\ Count("download_completed") + Count("upload_completed") = 0
        /\ TaskFailures = (IF LifecycleOver THEN 1 ELSE 0) + cancels
        /\ \A i \in 1..Len(log) :
             log[i].ev \in {"download_failed", "upload_failed"} =>
                 log[i].a \in { AuthExpiredMessage,
                                << "Download cancelled" >>,
                                << "Inference cancelled" >> }

\* C29: a download or upload task that starts with a credential expired by
\* its age, or whose validation request is answered 401, fails with the
\* authentication-expired message: it sends no job-detail, retrieve or
\* upload request, makes no login exchange, writes no file, and reports the
\* failure exactly once
C29_AuthExpiredFailsCleanly ==
    /\ C29_FailsAtOnce
    /\ []C29_NothingDone

\* a download whose validation request was answered 401 has reported its
\* failure, once
C29_Witness ==
    /\ AuthExpired
    /\ task_kind = "download"
    /\ Count("GET jobs_list") = 1
    /\ LifecycleOver
    /\ seen_at_cancel = None
    /\ TaskFailures = 1

-----------------------------------------------------------------------------
(* The credentials of the units of one session: every MainWorker and every
   task constructs a TokenManager of its own (main.py line 40,
   job_download_task.py line 39, file_upload_task.py line 40) and keeps a
   copy of the token in self.access_token *)

MaxLogins == 2
MaxRequests == 2

SessionUnits == { "poller1", "poller2", "task" }

Pollers == { "poller1", "poller2" }

\* the token the caller got from its own login and hands to the tasks
CallerToken == << "tok", 0 >>

\* the tokens the login endpoint has issued to the pollers
IssuedTokens == { log[i].a : i \in { j \in 1..Len(log) :
                                       log[j].ev = "POST login" } }

Absent ==
    [ pc |-> "absent", access_token |-> None, tm_access_token |-> None,
      token_created_at |-> None ]

InitSession ==
    /\ records = [ u \in SessionUnits |-> Absent ]
    /\ downloads = << >>
    /\ disk = [p \in {} |-> "partial"]
    /\ log = << >>
    /\ now = 0
    /\ access_token = None
    /\ tm_access_token = None
    /\ token_created_at = None
    /\ token_lifetime = token_lifetime_minutes
    /\ expiration_buffer = expiration_buffer_minutes
    /\ tm_call = None
    /\ NoWorker
    /\ NoTask

session_frame ==
    << worker_vars, token_vars, tm_vars, task_vars, disk, downloads >>

\* MainWorker.__init__, main.py lines 37-40: no token, a new TokenManager
construct_poller(u) ==
    /\ u \in Pollers
    /\ records[u].pc = "absent"
    /\ records' = [records EXCEPT ![u].pc = "idle"]
    /\ UNCHANGED << session_frame, now, log >>

\* JobDownloadTask.__init__, lines 29 and 39-40 (FileUploadTask.__init__,
\* lines 33 and 40-41): the token of the caller is copied and handed to a new
\* TokenManager, which takes the time of the call for its creation
construct_task(u) ==
    /\ u \notin Pollers
    /\ records[u].pc = "absent"
    /\ \E token \in {CallerToken} \cup IssuedTokens :
         records' = [records EXCEPT ![u] =
                       [ pc |-> "idle", access_token |-> token,
                         tm_access_token |-> token,
                         token_created_at |-> << now >> ]]
    /\ UNCHANGED << session_frame, now, log >>

\* main.py line 59: the token of the unit can be used as it is
Usable(u) ==
    /\ Truthy(records[u].access_token)
    /\ ~TokenExpired(records[u].tm_access_token, records[u].token_created_at,
                     now, token_lifetime, expiration_buffer)

\* a fault of poller_login: the new token is written to the record of every
\* unit that holds one
poller_login_shared(u) ==
    /\ u \in Pollers
    /\ records[u].pc = "idle"
    /\ ~Usable(u)
    /\ Logins < MaxLogins
    /\ LET token == << "tok", Logins + 1 >>
       IN  /\ log' = Append(log, Event("POST login", token, << u >>))
           /\ records' =
                 [ v \in SessionUnits |->
                     IF v = u
                       THEN [records[v] EXCEPT !.pc = "login",
                                               !.access_token = token]
                       ELSE IF records[v].pc = "idle"
                                 /\ Truthy(records[v].access_token)
                              THEN [records[v] EXCEPT !.access_token = token,
                                                      !.tm_access_token = token]
                              ELSE records[v] ]
    /\ UNCHANGED << session_frame, now >>

\* MainWorker._authenticate, lines 59-71: the login exchange, up to the
\* assignment of self.access_token
poller_login(u) ==
    /\ u \in Pollers
    /\ records[u].pc = "idle"
    /\ ~Usable(u)
    /\ Logins < MaxLogins
    /\ LET token == << "tok", Logins + 1 >>
       IN  /\ log' = Append(log, Event("POST login", token, << u >>))
           /\ records' = [records EXCEPT ![u].pc = "login",
                                         ![u].access_token = token]
    /\ UNCHANGED << session_frame, now >>

\* main.py line 74 and token_manager.py line 31
set_token_begin(u) ==
    /\ records[u].pc = "login"
    /\ records' = [records EXCEPT ![u].pc = "set",
                                  ![u].tm_access_token =
                                      records[u].access_token]
    /\ UNCHANGED << session_frame, now, log >>

\* token_manager.py line 32
set_token_end(u) ==
    /\ records[u].pc = "set"
    /\ records' = [records EXCEPT ![u].pc = "idle",
                                  ![u].token_created_at = << now >>]
    /\ UNCHANGED << session_frame, now, log >>

\* a unit sends a request with the token it reads from its own record:
\* main.py lines 60 and 76, job_download_task.py line 48
unit_request(u) ==
    /\ records[u].pc = "idle"
    /\ u \in Pollers => Usable(u)
    /\ Count("request") < MaxRequests
    /\ log' = Append(log, Event("request", records[u].access_token, << u >>))
    /\ UNCHANGED << session_frame, now, records >>

tick_session ==
    /\ now < MaxTime
    /\ now' = now + 1
    /\ UNCHANGED << session_frame, log, records >>

NextSession ==
    \/ \E u \in SessionUnits : construct_poller(u)
    \/ \E u \in SessionUnits : construct_task(u)
    \/ \E u \in SessionUnits : poller_login(u)
    \/ \E u \in SessionUnits : set_token_begin(u)
    \/ \E u \in SessionUnits : set_token_end(u)
    \/ \E u \in SessionUnits : unit_request(u)
    \/ tick_session

SpecSession == InitSession /\ [][NextSession]_vars

\* the token issued last in the session
LastIssued == IF Logins = 0 THEN CallerToken ELSE << "tok", Logins >>

\* no login is under way
NoLoginUnderWay ==
    \A u \in SessionUnits : records[u].pc \in {"absent", "idle"}

C28_OwnWriterOnly ==
    [][\A u \in SessionUnits :
          records'[u] # records[u] =>
              \/ construct_poller(u)
              \/ construct_task(u)
              \/ poller_login(u)
              \/ set_token_begin(u)
              \/ set_token_end(u)]_vars

\* outside its own login a unit's two copies of the token agree and the
\* token has its time of creation; a request carries the token of the record
\* of the unit that sends it
C28_OwnRecordRead ==
    /\ \A u \in SessionUnits :
         records[u].pc = "idle" =>
             /\ records[u].tm_access_token = records[u].access_token
             /\ Truthy(records[u].access_token)
                    <=> records[u].token_created_at # None
    /\ \A i \in 1..Len(log) :
         log[i].ev = "request" =>
             \/ log[i].a = records[log[i].b[1]].access_token
             \/ \E j \in (i + 1)..Len(log) :
                  log[j] = Event("POST login", log[j].a, log[i].b)

-----------------------------------------------------------------------------
(* MainWorker.run: failures that are not transport errors *)

\* positions of the log, after position n, that hold an event of this name
EventsAfter(n, ev) == { i \in (n + 1)..Len(log) : log[i].ev = ev }

\* the position of the error the outer handler emitted, 0 when there is none
WorkerError ==
    IF Errors("Worker Error") = {}
      THEN 0
      ELSE CHOOSE i \in Errors("Worker Error") : TRUE

\* a step that leaves the body of the loop for the end of run() emits one
\* error or one layer_ready, never none and never both
C31_NothingDropped ==
    (pc \notin {"start", "loop", "finally", "done"} /\ pc' = "finally")
    => \/ /\ Count("error")' = Count("error") + 1
          /\ Count("layer_ready")' = Count("layer_ready")
       \/ /\ Count("error")' = Count("error")
          /\ Count("layer_ready")' = Count("layer_ready") + 1

\* a status response without its keys is not branched on: the step that
\* reads it is the one that emits the error
C31_MissingKeys ==
    (pc = "status_branch" /\ ~job_status[1].has_keys /\ pc' # pc)
    => /\ pc' = "finally"
       /\ Errors("Worker Error")' # {}

\* once the outer handler has emitted its error the run is at its end, that
\* error is the only one, no layer_ready was or is emitted, no request
\* follows, and finished comes after the error
C31_AfterTheError ==
    WorkerError # 0 =>
        /\ Ended
        /\ Count("error") = 1
        /\ Count("layer_ready") = 0
        /\ RequestsAfter(WorkerError, RequestKinds) = {}
        /\ pc = "done" => Cardinality(EventsAfter(WorkerError, "finished")) = 1

\* C31: a failure inside the poll loop that is not a transport error (a
\* status response without "status", "result" or "status_code", a login
\* answer without "access_token", a file that cannot be written) is surfaced
\* as exactly one error followed by finished; it is not dropped, and neither
\* a status request nor layer_ready follows it.
C31_NonTransportFailure ==
    /\ [][C31_NothingDropped]_vars
    /\ [][C31_MissingKeys]_vars
    /\ []C31_AfterTheError

\* the second status response lacked its keys: the run ended with the one
\* error and finished
C31_Witness ==
    /\ pc = "done"
    /\ WorkerError # 0
    /\ iterations = 2
    /\ job_status # None
    /\ ~job_status[1].has_keys
    /\ Count("finished") = 1

-----------------------------------------------------------------------------
(* MainWorker.run: termination *)

\* the steps of run(), those of stop() and of the clock left out
RunNext ==
    \/ run_start
    \/ run_loop
    \/ status_auth
    \/ status_login
    \/ status_get
    \/ status_branch
    \/ error_sleep
    \/ polling_sleep
    \/ download_auth
    \/ download_login
    \/ download_get
    \/ download_stream
    \/ run_finally

\* run() under the assumption that its thread is scheduled, every network
\* call returns and every sleep ends: a step of run() that stays possible is
\* taken
SpecLive == Spec /\ WF_vars(RunNext)

\* a status response after which run() does not poll again: "end", an
\* "error" other than 404, an unknown status, or one that lacks its keys
Terminal(r) ==
    \/ ~r.has_keys
    \/ r.status = "end"
    \/ r.status = "error" /\ r.status_code # 404
    \/ r.status \notin {"end", "error", "pending", "start", "update"}

TerminalReturned == job_status # None /\ Terminal(job_status[1])

Finished == Count("finished") = 1

\* run() ends only for one of these: a terminal status, a failure, stop()
C32_EndsForAReason ==
    Ended => \/ TerminalReturned
             \/ Count("error") > 0
             \/ ~is_running

\* C32: if the server returns a terminal status or stop() is called, the run
\* emits finished in the end; a run ends for no other reason than a terminal
\* status, a failure or stop(), so that one which is answered pending, start,
\* update or the 404 error for ever, with no failure and no stop(), goes on
\* polling for ever.
C32_Termination ==
    /\ TerminalReturned ~> Finished
    /\ ~is_running ~> Finished
    /\ []C32_EndsForAReason

\* the run was stopped while it slept after a "pending" answer, and ended
C32_Witness ==
    /\ Finished
    /\ seen_at_stop # None
    /\ seen_at_stop[1].at = "polling_sleep"
    /\ ~TerminalReturned
    /\ Count("error") = 0

-----------------------------------------------------------------------------
(* JobsWorker (src/workers/job.py).  Its fields is_running, access_token and
   token_manager are kept in the variables of the same names; pc is the
   position of run(), iterations the index of the waiting loop of line 59 *)

MaxCycles == 2

\* the length of the wait between two fetches, scaled down from range(30)
WaitSeconds == 2

\* the fetches made so far: each ends with jobs_updated or with one of the
\* errors of lines 54 and 56
Cycles ==
    Count("jobs_updated") + Cardinality(Errors("Failed to fetch jobs"))
        + Cardinality(Errors("Unexpected error"))

\* JobsWorker.__init__, lines 17-22
InitJobs ==
    /\ pc = "jobs_loop"
    /\ stop_pc = "idle"
    /\ is_running = TRUE
    /\ access_token = << "tok", 0 >>
    /\ tm_access_token = access_token
    /\ token_created_at = << 0 >>
    /\ job_status = None
    /\ cache_path = None
    /\ local_path = None
    /\ disk = [p \in {} |-> "partial"]
    /\ now = 0
    /\ log = << >>
    /\ iterations = 0
    /\ stops = 0
    /\ seen_at_stop = None
    /\ token_lifetime = token_lifetime_minutes
    /\ expiration_buffer = expiration_buffer_minutes
    /\ tm_call = None
    /\ NoTask
    /\ NoSession

jobs_frame ==
    << unit_vars, stop_pc, job_status, cache_path, local_path, disk,
       token_vars >>

\* _authenticate, lines 27-30, then _get_jobs, lines 36-37, and run(),
\* line 52: the token is no longer usable, an error is emitted and the empty
\* list handed over
AuthExpiredCycle(lg) ==
    /\ log' = lg \o << Signal("token_expired", None),
                       Signal("error", AuthExpiredMessage),
                       Signal("jobs_updated", << "[]" >>) >>
    /\ iterations' = 0
    /\ pc' = "jobs_wait"

\* run(), line 49, then _get_jobs and _authenticate up to the validation
\* request of check_and_handle_expiration
jobs_loop ==
    /\ pc = "jobs_loop"
    /\ IF ~is_running
         THEN /\ pc' = "finally"
              /\ UNCHANGED << log, iterations >>
         ELSE /\ Cycles < MaxCycles
              /\ IF TokenExpired(tm_access_token, token_created_at, now,
                                 token_lifetime, expiration_buffer)
                   THEN AuthExpiredCycle(log)
                   ELSE /\ log' = Append(log, Request("GET jobs_list",
                                                      tm_access_token))
                        /\ pc' = "jobs_validate"
                        /\ UNCHANGED iterations
    /\ UNCHANGED << jobs_frame, is_running, stops, seen_at_stop, now >>

\* the validation request returns (token_manager.py 76-109), then
\* _get_jobs, lines 36-41, up to the GET of the list
jobs_validate ==
    /\ pc = "jobs_validate"
    /\ \E raised \in BOOLEAN, code \in ValidationCodes \cup {0} :
        /\ raised <=> code = 0
        /\ IF ValidationResult(raised, code)
             THEN /\ log' = Append(log, Request("GET jobs", access_token))
                  /\ pc' = "jobs_get"
                  /\ UNCHANGED iterations
             ELSE AuthExpiredCycle(log)
    /\ UNCHANGED << jobs_frame, is_running, stops, seen_at_stop, now >>

\* _get_jobs, lines 41-44, then run(), lines 52-56: the list arrives and is
\* handed over, or the fetch fails and an error is emitted
jobs_get ==
    /\ pc = "jobs_get"
    /\ \/ log' = Append(log, Signal("jobs_updated", << "jobs" >>))
       \/ \* connection error, or raise_for_status on a 4xx/5xx answer
          log' = Append(log, Signal("error", << "Failed to fetch jobs" >>))
       \/ \* a body without "jobs", or one that is no list
          log' = Append(log, Signal("error", << "Unexpected error" >>))
    /\ iterations' = 0
    /\ pc' = "jobs_wait"
    /\ UNCHANGED << jobs_frame, is_running, stops, seen_at_stop, now >>

\* a fault of jobs_wait: the flag is not read while waiting
jobs_wait_unchecked ==
    /\ pc = "jobs_wait"
    /\ pc' = IF iterations = WaitSeconds THEN "jobs_loop" ELSE "jobs_sleep"
    /\ UNCHANGED << jobs_frame, is_running, stops, seen_at_stop, now, log,
                    iterations >>

\* run(), lines 59-61: the head of the waiting loop and its test of the flag
jobs_wait ==
    /\ pc = "jobs_wait"
    /\ pc' = IF iterations = WaitSeconds \/ ~is_running
               THEN "jobs_loop"
               ELSE "jobs_sleep"
    /\ UNCHANGED << jobs_frame, is_running, stops, seen_at_stop, now, log,
                    iterations >>

\* run(), line 62: time.sleep(1) returns
jobs_sleep ==
    /\ pc = "jobs_sleep"
    /\ iterations' = iterations + 1
    /\ pc' = "jobs_wait"
    /\ UNCHANGED << jobs_frame, is_running, stops, seen_at_stop, now, log >>

\* run(), line 67
jobs_finally ==
    /\ pc = "finally"
    /\ log' = Append(log, Signal("finished", None))
    /\ pc' = "done"
    /\ UNCHANGED << jobs_frame, is_running, stops, seen_at_stop, now,
                    iterations >>

\* JobsWorker.stop, line 71, called from the GUI thread
jobs_stop ==
    /\ stops < MaxStops
    /\ is_running' = FALSE
    /\ stops' = stops + 1
    /\ seen_at_stop' =
          IF seen_at_stop = None
            THEN << [log_len |-> Len(log), iters |-> iterations, at |-> pc] >>
            ELSE seen_at_stop
    /\ UNCHANGED << jobs_frame, pc, now, log, iterations >>

\* the clock of the token manager, while run() waits
tick_jobs ==
    /\ now < MaxTime
    /\ pc \in {"jobs_validate", "jobs_get", "jobs_sleep"}
    /\ now' = now + 1
    /\ UNCHANGED << jobs_frame, pc, is_running, stops, seen_at_stop, log,
                    iterations >>

NextJobs ==
    \/ jobs_loop
    \/ jobs_validate
    \/ jobs_get
    \/ jobs_wait
    \/ jobs_sleep
    \/ jobs_finally
    \/ jobs_stop
    \/ tick_jobs

SpecJobs == InitJobs /\ [][NextJobs]_vars

JobsRequests == Count("GET jobs_list") + Count("GET jobs")

\* a fetch ends with jobs_updated or with one error, an unusable token with
\* its error, and in each case the wait comes next
C33_FetchEndsInWait ==
    /\ (pc = "jobs_get" /\ pc' # pc)
       => /\ pc' = "jobs_wait"
          /\ Count("jobs_updated")' + Count("error")'
                = Count("jobs_updated") + Count("error") + 1
    /\ Count("error")' > Count("error") => pc' = "jobs_wait"

\* once the flag is cleared no sleep begins, and a sleep that ends is the
\* one stop() came in
C33_WaitAbandoned ==
    /\ (pc = "jobs_wait" /\ ~is_running /\ pc' # pc) => pc' = "jobs_loop"
    /\ (pc = "jobs_sleep" /\ ~is_running /\ pc' # pc)
       => /\ seen_at_stop[1].at = "jobs_sleep"
          /\ seen_at_stop[1].iters = iterations

\* once run() has read the cleared flag no request is sent
C33_NoFetchAfterStop ==
    (~is_running /\ pc \in {"jobs_loop", "jobs_wait", "finally", "done"})
    => /\ JobsRequests' = JobsRequests
       /\ pc' \in {pc, "jobs_loop", "finally", "done"}
       /\ pc' = "jobs_wait" => pc = "jobs_wait" /\ stops' = stops + 1

\* the loop is left on the cleared flag only; finished is emitted once, when
\* run() has ended, and nothing follows it
C33_FinishedLast ==
    /\ pc \in {"finally", "done"} => ~is_running
    /\ Count("finished") = (IF pc = "done" THEN 1 ELSE 0)
    /\ pc = "done" => log[Len(log)].ev = "finished"

\* C33: the job-list worker goes on listing until stop() is called: a fetch
\* that fails (network, HTTP status, expired token) emits an error and the
\* loop goes on, every cycle is followed by a wait that is left within one
\* second of stop(), no fetch starts once the cleared flag has been read,
\* and finished is emitted exactly once, after every jobs_updated and error.
C33_JobsLoop ==
    /\ [][C33_FetchEndsInWait]_vars
    /\ [][C33_WaitAbandoned]_vars
    /\ [][C33_NoFetchAfterStop]_vars
    /\ []C33_FinishedLast

\* a fetch failed, the next one delivered the list, stop() came during the
\* wait and the run ended
C33_Witness ==
    /\ pc = "done"
    /\ Cardinality(Errors("Failed to fetch jobs")) = 1
    /\ Count("jobs_updated") = 1
    /\ log[Len(log) - 1].ev = "jobs_updated"
    /\ seen_at_stop # None
    /\ seen_at_stop[1].at = "jobs_sleep"

-----------------------------------------------------------------------------
(* MainWorker: the token sent and the token checked *)

\* the requests that carry the Authorization header
AuthorizedRequests == { "GET jobs_detail", "GET retrieve" }

\* MainWorker.access_token and the token of its TokenManager are the same
C34_TokensAgree == access_token = tm_access_token

\* the two are replaced in the same login exchange, and by nothing else
C34_ReplacedTogether ==
    (access_token' # access_token \/ tm_access_token' # tm_access_token)
    => /\ pc \in {"status_login", "download_login"}
       /\ access_token' = tm_access_token'
       /\ token_created_at' = << now >>

\* a request is sent with the token of the token manager, which the check
\* of line 59 has just found usable
C34_SentIsChecked ==
    (Len(log') > Len(log) /\ log'[Len(log')].ev \in AuthorizedRequests)
    => /\ log'[Len(log')].a = tm_access_token'
       /\ is_token_valid(tm_access_token', token_created_at', now')

\* C34: in every state of a poller the token it puts in the Authorization
\* header (MainWorker.access_token) is the token stored in its TokenManager:
\* both are absent at first and both are replaced by a login, so that the
\* usability check concerns the token that is sent.
C34_OneToken ==
    /\ []C34_TokensAgree
    /\ [][C34_ReplacedTogether]_vars
    /\ [][C34_SentIsChecked]_vars

\* after a second login the retrieve request carries the new token
C34_Witness ==
    /\ Logins = 2
    /\ access_token = << "tok", 2 >>
    /\ tm_access_token = << "tok", 2 >>
    /\ log[Len(log)] = Request("GET retrieve", << "tok", 2 >>)

-----------------------------------------------------------------------------
(* MainWorker: what follows finished *)

\* the position of finished in the log, 0 when it was not emitted
FinishedAt ==
    IF Count("finished") = 0
      THEN 0
      ELSE CHOOSE i \in 1..Len(log) : log[i].ev = "finished"

\* C35: finished is the last event of a poller: under every interleaving of
\* run() with stop(), no status_updated, error or layer_ready follows it.
C35_FinishedIsLast ==
    FinishedAt # 0 =>
        \A i \in (FinishedAt + 1)..Len(log) :
            log[i].ev \notin {"status_updated", "error", "layer_ready"}

\* what does hold: run() emits nothing after finished; the only event that
\* can follow is the status_updated of stop(), line 202
C35_OnlyStopFollows ==
    FinishedAt # 0 =>
        \A i \in (FinishedAt + 1)..Len(log) :
            log[i] = Signal("status_updated", << "stopping" >>)

-----------------------------------------------------------------------------
(* JobDownloadTask and FileUploadTask: completed and failed *)

TaskCompletions == Count("download_completed") + Count("upload_completed")

\* C36: no lifecycle of a transfer emits both a completed and a failed
\* event: under every interleaving of cancel() with run() and finished(), a
\* download or upload that has emitted download_failed or upload_failed
\* never emits download_completed or upload_completed, and conversely.
C36_CompletedOrFailed ==
    ~(TaskCompletions > 0 /\ TaskFailures > 0)

\* what does hold: both are emitted only when cancel() was called and run()
\* went on to its successful end
C36_BothOnlyAfterCancel ==
    (TaskCompletions > 0 /\ TaskFailures > 0) =>
        /\ cancels + (IF cancel_pc = "emit" THEN 1 ELSE 0) > 0
        /\ result = << TRUE >>
        /\ \A i \in 1..Len(log) :
             log[i].ev \in {"download_failed", "upload_failed"} =>
                 log[i].a \in { << "Download cancelled" >>,
                                << "Inference cancelled" >> }

-----------------------------------------------------------------------------
(* JobDownloadTask: the order of the progress values *)

NonDecreasing(s) == \A i \in 1..(Len(s) - 1) : s[i] =< s[i + 1]

\* the values shown form the set-up values, in order, then values of the
\* chunk loop, then 100 if the body was read to its end
C37_Shape ==
    task_kind = "download" =>
        /\ IsPrefix(progress, SetupProgress) \/ IsPrefix(SetupProgress, progress)
        /\ \A i \in 1..Len(StreamProgress) :
             StreamProgress[i] >= 20 /\ StreamProgress[i] =< 95
        /\ BodyEnded => progress[Len(progress)] = 100
        /\ NonDecreasing(progress)

\* a step only adds values, none of them below the last one shown
C37_StepsGoUp ==
    (task_kind = "download" /\ progress' # progress)
    => /\ Len(progress') > Len(progress)
       /\ SubSeq(progress', 1, Len(progress)) = progress
       /\ NonDecreasing(progress')

\* C37: the progress values a download task reports never go down over the
\* whole run (1, 5, 10, 15, the clamped values of the chunks, 100), whatever
\* the Content-Length and the chunks, those that sum to more or to less than
\* the Content-Length included.
C37_ProgressNonDecreasing ==
    /\ []C37_Shape
    /\ [][C37_StepsGoUp]_vars

\* a body one byte short of its Content-Length, read in two chunks
C37_Witness ==
    /\ task_kind = "download"
    /\ result = << TRUE >>
    /\ total_size = 3
    /\ downloaded_size = 2
    /\ progress = << 1, 5, 10, 15, 33, 66, 100 >>

-----------------------------------------------------------------------------
(* TokenManager: local expiry over time *)

\* what is_token_expired would answer in this state
ExpiredNow ==
    TokenExpired(tm_access_token, token_created_at, now, token_lifetime,
                 expiration_buffer)

\* what get_time_until_expiry would answer in this state
RemainingNow ==
    TimeUntilExpiry(token_created_at, now, token_lifetime, expiration_buffer)

\* the step is a call of set_token
SetTokenStep ==
    \E tok \in TokenArgs, lifetime \in LifetimeArgs : set_token(tok, lifetime)

\* the answers the two methods give are those of the state they are called in
C38_AnswersOfTheState ==
    /\ JustReturned("is_token_expired") => tm_call[1].value[1] = ExpiredNow
    /\ JustReturned("get_time_until_expiry") =>
           tm_call[1].value[1] = RemainingNow

\* no remaining time means expired, at every minute and for every buffer
C38_ZeroMeansExpired == RemainingNow = 0 => ExpiredNow

\* the clock does not go back and the buffer is not negative
C38_ClockAndBuffer ==
    /\ expiration_buffer >= 0
    /\ [][now' >= now]_vars

\* an expired manager stays expired over every step but a set_token
C38_ExpiredStays ==
    [][ (ExpiredNow /\ ~SetTokenStep) => ExpiredNow' ]_vars

\* is_token_expired called after it answered TRUE, with no other call in
\* between, answers TRUE again however late
C38_TrueThenTrue ==
    [][ ( /\ Ret("is_token_expired")
          /\ tm_call[1].value[1] = TRUE
          /\ Ret("is_token_expired")' )
        => tm_call'[1].value[1] = TRUE ]_vars

\* is_token_expired called right after get_time_until_expiry answered 0
\* answers TRUE
C38_ZeroThenTrue ==
    [][ ( /\ JustReturned("get_time_until_expiry")
          /\ tm_call[1].value[1] = 0
          /\ JustReturned("is_token_expired")' )
        => tm_call'[1].value[1] = TRUE ]_vars

\* C38: with a clock that does not go back and a buffer >= 0, local expiry is
\* monotone and agrees with the remaining time: once is_token_expired() has
\* returned true it returns true at every later time until the next
\* set_token, and whenever get_time_until_expiry() is 0 is_token_expired() is
\* true (not the other way round inside the buffer window).
C38_ExpiryMonotone ==
    /\ [](C38_AnswersOfTheState /\ C38_ZeroMeansExpired)
    /\ C38_ClockAndBuffer
    /\ C38_ExpiredStays
    /\ C38_TrueThenTrue
    /\ C38_ZeroThenTrue

\* is_token_expired has answered TRUE for a stored token past the start of
\* the buffer window, where it was already TRUE a minute before, while time
\* remains until the lifetime is over
C38_Witness ==
    /\ JustReturned("is_token_expired")
    /\ tm_call[1].value[1] = TRUE
    /\ tm_access_token # None
    /\ now - token_created_at[1] > token_lifetime - expiration_buffer
    /\ now - token_created_at[1] > 0
    /\ RemainingNow > 0

=============================================================================
